---- MODULE Spec2Model ----
(***************************************************************************)
(* A model of the opportunity-detection and trade-validation engine of     *)
(* arbagent: the market-data collector's pool store (collector.py), the    *)
(* price analyzer with its cross-venue scan, triangular scan and ranker    *)
(* (analyzer.py), and the arbitrage detector with its validator            *)
(* (detector.py).                                                          *)
(*                                                                         *)
(* Numbers.  The program computes with Python floats.  The model computes  *)
(* with exact rationals [n |-> numerator, d |-> denominator], kept in      *)
(* lowest terms with d > 0, so that two equal values are equal records.    *)
(* Rounding of the floating point operations is not modelled.              *)
(***************************************************************************)
EXTENDS Integers, Sequences, FiniteSets, TLC

VARIABLES
    liquidity_pools,          \* MarketDataCollector.liquidity_pools: venue key -> list of pools
    price_discrepancies,      \* PriceAnalyzer.price_discrepancies
    analysis_log,             \* the last line analyze_prices logged: "none", "completed", "error"
    opportunities,            \* ArbitrageDetector.opportunities
    validated_opportunities,  \* ArbitrageDetector.validated_opportunities
    validation_log,           \* what validate_opportunity returned for each entry of opportunities
    returned,                 \* the value of the last get_arbitrage_opportunities call, with its arguments
    collected,                \* how far the collector is: "nothing", "all", "again"
    assessed,                 \* the last risk score computed on its own, with its arguments
    since_last_detection,     \* time.time() - ArbitrageDetector.last_detection, in seconds,
                              \* counted up to detection_interval
    detector_pc,              \* where start_detection is: "detect", "sleep", "backoff", "crashed"
    running,                  \* MarketDataService.running
    service_pc,               \* where MarketDataService.start is: "idle", "test", "update",
                              \* "analyze", "sleep", "backoff", "returned"
    analysis_pc,              \* where each invocation of analyze_prices is: "idle" or
                              \* "updating" (at await update_market_data), and for how long
    since_last_analysis,      \* time.time() - PriceAnalyzer.last_analysis, in seconds,
                              \* counted up to analysis_interval
    pending_executions,       \* FlashloanExecutor.pending_executions
    execution_results,        \* FlashloanExecutor.execution_results
    execution_tasks,          \* the execute_trade tasks created and not yet run
    wallet_address,           \* FlashloanExecutor.wallet_address
    web3_clients,             \* the network ids FlashloanExecutor.web3_clients has a client for
    skipped                   \* the ids the last execute_profitable_trades logged as
                              \* already pending

vars == <<liquidity_pools, price_discrepancies, analysis_log, opportunities,
          validated_opportunities, validation_log, returned, collected, assessed,
          since_last_detection, detector_pc, running, service_pc,
          analysis_pc, since_last_analysis, pending_executions, execution_results,
          execution_tasks, wallet_address, web3_clients, skipped>>

-----------------------------------------------------------------------------
(* Exact rational arithmetic                                               *)

Abs(x) == IF x < 0 THEN -x ELSE x

RECURSIVE GCD(_, _)
GCD(a, b) == IF b = 0 THEN a ELSE GCD(b, a % b)

\* n/d in lowest terms, d # 0
Rat(n, d) ==
    LET s == IF d < 0 THEN -1 ELSE 1
        g == GCD(Abs(n), Abs(d))
    IN  [n |-> (s * n) \div g, d |-> (s * d) \div g]

RInt(k) == [n |-> k, d |-> 1]

RAdd(a, b) ==
    LET g == GCD(a.d, b.d)
    IN  Rat(a.n * (b.d \div g) + b.n * (a.d \div g), (a.d \div g) * b.d)

RNeg(a) == [n |-> -a.n, d |-> a.d]

RSub(a, b) == RAdd(a, RNeg(b))

RMul(a, b) ==
    LET g1 == GCD(Abs(a.n), b.d)
        g2 == GCD(Abs(b.n), a.d)
    IN  Rat((a.n \div g1) * (b.n \div g2), (a.d \div g2) * (b.d \div g1))

\* defined for b # 0 only: the caller decides what a zero divisor does
RDiv(a, b) == RMul(a, Rat(b.d, b.n))

RLess(a, b) ==
    IF a.d = b.d THEN a.n < b.n
    ELSE LET g == GCD(a.d, b.d)
         IN  a.n * (b.d \div g) < b.n * (a.d \div g)

RLeq(a, b) == ~RLess(b, a)

RGeq(a, b) == ~RLess(a, b)

RMin(a, b) == IF RLess(b, a) THEN b ELSE a     \* Python min(a, b): a unless b < a

RMax(a, b) == IF RLess(a, b) THEN b ELSE a     \* Python max(a, b): a unless b > a

Zero == RInt(0)

One == RInt(1)

-----------------------------------------------------------------------------
(* Program constants                                                       *)

MIN_PROFIT_THRESHOLD == Rat(5, 1000)           \* config.py: 0.005

MIN_LIQUIDITY_THRESHOLD == 100000              \* config.py: $100k

CrossGasCostPct == Rat(1, 1000)                \* analyzer.py:148  0.001

TriangularGasCostPct == Rat(2, 1000)           \* analyzer.py:245  0.002

DefaultFeeTier == Rat(3, 1000)                 \* analyzer.py:96   pool.get("feeTier", 0.003)

DefaultCurveFee == Rat(4, 10000)               \* analyzer.py:128  pool.get("fee", 0.0004)

DefaultLimit == 10                             \* analyzer.py:277  limit: int = 10

PlaceholderReserveUSD == 500000                \* detector.py:303

-----------------------------------------------------------------------------
(* The pool records the collector can hold.  A venue key "dex_network" is   *)
(* the pair <<dex_id, network_id>>: key.split("_") reads its two parts.    *)
(* A two-token pool carries token0, token1 (their symbols), reserve0,      *)
(* reserve1 and optionally reserveUSD and feeTier; a multi-token pool      *)
(* carries coins (their symbols), balances and optionally fee.             *)

MaxPools == 3          \* longest pool list fetched for the first venue

UniswapPolygon == <<"uniswap", "polygon">>

UniswapBase == <<"uniswap", "base">>

CurvePolygon == <<"curve", "polygon">>

\* iteration order of the liquidity_pools dict (insertion order of its keys)
VenueOrder == <<UniswapPolygon, UniswapBase, CurvePolygon>>

Venues == {VenueOrder[i] : i \in 1..Len(VenueOrder)}

TwoTokenPool(id, t0, t1, r0, r1, usd, fee) ==
    [id |-> id, token0 |-> t0, token1 |-> t1, reserve0 |-> r0, reserve1 |-> r1,
     reserveUSD |-> usd, feeTier |-> fee]

PolygonPools ==
    { TwoTokenPool("p1", "WETH", "USDC", 1, 1, 300000, Rat(3, 1000)),
      TwoTokenPool("p2", "USDC", "DAI", 1, 2, 2000000, Rat(3, 1000)),
      TwoTokenPool("p3", "DAI", "WETH", 1, 2, 300000, Rat(3, 1000)),
      TwoTokenPool("p4", "DAI", "WETH", 1, 4, 150000, Rat(3, 1000)),
      TwoTokenPool("p5", "WETH", "WETH", 2, 1, 300000, Rat(3, 1000)) }

BasePools ==
    { TwoTokenPool("b1", "WETH", "USDC", 1, 2, 700000, Rat(3, 1000)),
      TwoTokenPool("b2", "WETH", "USDC", 40, 41, 700000, Rat(5, 10000)),
      \* no feeTier: the analyzer falls back to its default; the pair of p1 with
      \* its tokens listed the other way round
      [id |-> "b3", token0 |-> "USDC", token1 |-> "WETH", reserve0 |-> 101,
       reserve1 |-> 100, reserveUSD |-> 300000],
      TwoTokenPool("b4", "WETH", "USDC", 0, 1, 300000, Rat(3, 1000)),
      TwoTokenPool("b5", "WETH", "USDC", 1, 3, 50000, Rat(3, 1000)) }

CurvePools ==
    { [id |-> "c1", coins |-> <<"USDC", "DAI">>, balances |-> <<1, 1>>,
       reserveUSD |-> 50000, fee |-> Rat(4, 10000)],
      [id |-> "c2", coins |-> <<"USDC", "DAI", "WETH">>, balances |-> <<0, 1, 2>>] }

\* records a venue can report with a field of their variant missing: a
\* two-token pool without id, one without token1, a multi-token pool with
\* fewer balances than coins
MalformedPolygonPools ==
    { [token0 |-> "DAI", token1 |-> "WETH", reserve0 |-> 1, reserve1 |-> 8,
       reserveUSD |-> 300000, feeTier |-> Rat(3, 1000)],
      [id |-> "m2", token0 |-> "WETH", reserve0 |-> 1, reserve1 |-> 8,
       reserveUSD |-> 300000, feeTier |-> Rat(3, 1000)] }

MalformedCurvePools ==
    { [id |-> "m3", coins |-> <<"USDC", "DAI">>, balances |-> <<1>>] }

\* the order in which a venue reports its pools
Reported(venue) ==
    IF venue = UniswapPolygon THEN <<"p1", "p2", "p3", "p4", "p5">>
    ELSE IF venue = UniswapBase THEN <<"b1", "b2", "b3", "b4", "b5">>
    ELSE <<"c1", "c2">>

PoolsOf(venue) ==
    IF venue = UniswapPolygon THEN PolygonPools
    ELSE IF venue = UniswapBase THEN BasePools
    ELSE CurvePools

\* the lists of at most k distinct pools of S, in every order
RECURSIVE PoolLists(_, _)
PoolLists(S, k) ==
    IF k = 0 THEN {<<>>}
    ELSE LET shorter == PoolLists(S, k - 1)
         IN  shorter \cup
             {Append(l, p) : <<l, p>> \in
                 {lp \in shorter \X S :
                     \A i \in 1..Len(lp[1]) : lp[1][i] # lp[2]}}

LongestList(venue) == IF venue = UniswapPolygon THEN MaxPools ELSE 1

\* fetch_uniswap_pools keeps the pools that hold the minimum liquidity
fetch_uniswap_pools(sample_pools) ==
    SelectSeq(sample_pools, LAMBDA pool : pool.reserveUSD >= MIN_LIQUIDITY_THRESHOLD)

\* fetch_curve_pools keeps every pool
fetch_curve_pools(sample_pools) == sample_pools

\* what fetch_dex_pools stores for a venue that reports sample_pools
fetch_dex_pools(venue, sample_pools) ==
    IF venue[1] = "uniswap" THEN fetch_uniswap_pools(sample_pools)
    ELSE IF venue[1] = "curve" THEN fetch_curve_pools(sample_pools)
    ELSE <<>>

\* every list a venue's pool list can be: what a fetch stores of a report of
\* at most LongestList pools, in any order
AnyLists(venue) ==
    {l \in {fetch_dex_pools(venue, sample_pools) :
                sample_pools \in PoolLists(PoolsOf(venue), LongestList(venue))} :
        Len(l) <= LongestList(venue)}

Position(venue, id) == CHOOSE k \in 1..Len(Reported(venue)) : Reported(venue)[k] = id

\* the lists a fetch of the venue stores when it reports in its usual order
FetchedLists(venue) ==
    {l \in AnyLists(venue) :
        \A i, j \in 1..Len(l) :
            i < j => Position(venue, l[i].id) < Position(venue, l[j].id)}

SnapshotsOf(polygon, base, curve) ==
    {[v \in Venues |-> IF v = UniswapPolygon THEN a ELSE IF v = UniswapBase THEN b ELSE c] :
        <<a, b, c>> \in polygon \X base \X curve}

\* the pool store after any number of updates, lists in any order
Snapshots ==
    SnapshotsOf(AnyLists(UniswapPolygon), AnyLists(UniswapBase), AnyLists(CurvePolygon))

\* the pool store after an update of every venue
FetchedSnapshots ==
    SnapshotsOf(FetchedLists(UniswapPolygon), FetchedLists(UniswapBase),
                FetchedLists(CurvePolygon))

-----------------------------------------------------------------------------
(* PriceAnalyzer: the cross-venue scan (analyzer.py:63-180)                *)

IsTwoTokenPool(pool) ==
    {"token0", "token1", "reserve0", "reserve1"} \subseteq DOMAIN pool

IsMultiTokenPool(pool) == {"coins", "balances"} \subseteq DOMAIN pool

\* pool.get(field, default)
PoolGet(pool, field, default) ==
    IF field \in DOMAIN pool THEN pool[field] ELSE default

\* a / b if b > 0 else 0
PriceOf(a, b) == IF b > 0 THEN Rat(a, b) ELSE Zero

\* pair_key = f"{token0}_{token1}": the two symbols in the pool's own order
PairKey(t0, t1) == <<t0, t1>>

\* pair_prices is an insertion-ordered dict: a list of [key, prices] entries
AddObservation(pair_prices, key, obs) ==
    IF \E i \in 1..Len(pair_prices) : pair_prices[i].key = key
    THEN [pair_prices EXCEPT
              ![CHOOSE i \in 1..Len(pair_prices) : pair_prices[i].key = key].prices =
                  Append(@, obs)]
    ELSE Append(pair_prices, [key |-> key, prices |-> <<obs>>])

TwoTokenObservation(venue, pool) ==
    [dex_id |-> venue[1], network_id |-> venue[2], pool_id |-> pool.id,
     price |-> PriceOf(pool.reserve1, pool.reserve0),
     fee |-> PoolGet(pool, "feeTier", DefaultFeeTier)]

MultiTokenObservation(venue, pool, i, j) ==
    [dex_id |-> venue[1], network_id |-> venue[2], pool_id |-> pool.id,
     price |-> PriceOf(pool.balances[j], pool.balances[i]),
     fee |-> PoolGet(pool, "fee", DefaultCurveFee)]

\* for i in range(len(coins) - 1): for j in range(i + 1, len(coins))
RECURSIVE AddCoinPairs(_, _, _, _, _)
AddCoinPairs(pair_prices, venue, pool, i, j) ==
    IF i > Len(pool.coins) - 1 THEN pair_prices
    ELSE IF j > Len(pool.coins) THEN AddCoinPairs(pair_prices, venue, pool, i + 1, i + 2)
    ELSE AddCoinPairs(
             AddObservation(pair_prices, PairKey(pool.coins[i], pool.coins[j]),
                            MultiTokenObservation(venue, pool, i, j)),
             venue, pool, i, j + 1)

ExtractPool(pair_prices, venue, pool) ==
    IF IsTwoTokenPool(pool)
    THEN AddObservation(pair_prices, PairKey(pool.token0, pool.token1),
                        TwoTokenObservation(venue, pool))
    ELSE IF IsMultiTokenPool(pool)
    THEN AddCoinPairs(pair_prices, venue, pool, 1, 2)
    ELSE pair_prices

RECURSIVE ExtractPools(_, _, _, _)
ExtractPools(pair_prices, venue, pools, k) ==
    IF k > Len(pools) THEN pair_prices
    ELSE ExtractPools(ExtractPool(pair_prices, venue, pools[k]), venue, pools, k + 1)

\* for key, pools in all_pools.items(): for pool in pools
RECURSIVE ExtractAll(_, _, _)
ExtractAll(pair_prices, all_pools, v) ==
    IF v > Len(VenueOrder) THEN pair_prices
    ELSE ExtractAll(ExtractPools(pair_prices, VenueOrder[v], all_pools[VenueOrder[v]], 1),
                    all_pools, v + 1)

\* a variant that keeps the last of the equal ones
RECURSIVE LowestLastSeen(_, _, _)
LowestLastSeen(prices, k, best) ==
    IF k > Len(prices) THEN best
    ELSE LowestLastSeen(prices, k + 1,
                        IF RLeq(prices[k].price, best.price) THEN prices[k] ELSE best)

\* min(prices, key=price) and max(prices, key=price): the first of the equal ones
RECURSIVE LowestFrom(_, _, _)
LowestFrom(prices, k, best) ==
    IF k > Len(prices) THEN best
    ELSE LowestFrom(prices, k + 1,
                    IF RLess(prices[k].price, best.price) THEN prices[k] ELSE best)

LowestPrice(prices) == LowestFrom(prices, 2, prices[1])

RECURSIVE HighestFrom(_, _, _)
HighestFrom(prices, k, best) ==
    IF k > Len(prices) THEN best
    ELSE HighestFrom(prices, k + 1,
                     IF RLess(best.price, prices[k].price) THEN prices[k] ELSE best)

HighestPrice(prices) == HighestFrom(prices, 2, prices[1])

CrossNetProfit(price_diff_pct, buy_fee, sell_fee) ==
    RSub(RSub(RSub(price_diff_pct, buy_fee), sell_fee), CrossGasCostPct)

CrossOpportunity(key, lowest, highest) ==
    LET price_diff_pct == RDiv(RSub(highest.price, lowest.price), lowest.price)
    IN  [type |-> "cross_dex", token_pair |-> key, token0 |-> key[1], token1 |-> key[2],
         buy_dex |-> lowest.dex_id, buy_network |-> lowest.network_id,
         buy_pool |-> lowest.pool_id, buy_price |-> lowest.price,
         sell_dex |-> highest.dex_id, sell_network |-> highest.network_id,
         sell_pool |-> highest.pool_id, sell_price |-> highest.price,
         price_diff_pct |-> price_diff_pct,
         buy_fee |-> lowest.fee, sell_fee |-> highest.fee,
         estimated_gas_cost_pct |-> CrossGasCostPct,
         net_profit_pct |-> CrossNetProfit(price_diff_pct, lowest.fee, highest.fee)]

CrossEmitsAlways(opp) == TRUE

CrossEmits(opp) == RGeq(opp.net_profit_pct, MIN_PROFIT_THRESHOLD)

\* The loop over pair_prices.items().  The division by the lowest price raises
\* ZeroDivisionError when that price is 0: the loop ends there, with what it had
\* appended, and the exception goes to analyze_prices.
RECURSIVE ScanPairs(_, _, _)
ScanPairs(pair_prices, k, found) ==
    IF k > Len(pair_prices) THEN [found |-> found, raised |-> FALSE]
    ELSE LET prices == pair_prices[k].prices
             lowest == LowestPrice(prices)
             highest == HighestPrice(prices)
         IN  IF Len(prices) < 2 THEN ScanPairs(pair_prices, k + 1, found)
             ELSE IF lowest.price = Zero THEN [found |-> found, raised |-> TRUE]
             ELSE LET opp == CrossOpportunity(pair_prices[k].key, lowest, highest)
                  IN  ScanPairs(pair_prices, k + 1,
                                IF CrossEmits(opp) THEN Append(found, opp) ELSE found)

\* The extraction raises on a pool it takes for a two-token pool that has no
\* id (KeyError at pool["id"]) and on a multi-token pool of two coins or more
\* that has no id or fewer balances than coins (IndexError at balances[j]).
ExtractRaises(pool) ==
    IF IsTwoTokenPool(pool) THEN "id" \notin DOMAIN pool
    ELSE IF IsMultiTokenPool(pool)
    THEN /\ Len(pool.coins) >= 2
         /\ ("id" \notin DOMAIN pool \/ Len(pool.balances) < Len(pool.coins))
    ELSE FALSE

\* The exception of the extraction leaves the scan before its pair loop, so
\* with nothing appended.
analyze_cross_dex_opportunities(all_pools, found) ==
    IF \E v \in 1..Len(VenueOrder) : \E k \in 1..Len(all_pools[VenueOrder[v]]) :
           ExtractRaises(all_pools[VenueOrder[v]][k])
    THEN [found |-> found, raised |-> TRUE]
    ELSE ScanPairs(ExtractAll(<<>>, all_pools, 1), 1, found)

-----------------------------------------------------------------------------
(* PriceAnalyzer: the triangular scan (analyzer.py:182-275)                *)
(* token_graph is a dict of dicts, both insertion-ordered: a list of       *)
(* [token, edges] entries, edges a list of [to, price, pool_id, fee].      *)

GraphHas(token_graph, t) == \E i \in 1..Len(token_graph) : token_graph[i].token = t

\* if token not in token_graph: token_graph[token] = {}
EnsureToken(token_graph, t) ==
    IF GraphHas(token_graph, t) THEN token_graph
    ELSE Append(token_graph, [token |-> t, edges |-> <<>>])

\* edges[to] = edge: a new key goes last, an old key keeps its place
DictSet(edges, edge) ==
    IF \E j \in 1..Len(edges) : edges[j].to = edge.to
    THEN [edges EXCEPT ![CHOOSE j \in 1..Len(edges) : edges[j].to = edge.to] = edge]
    ELSE Append(edges, edge)

\* token_graph[from][edge.to] = edge
SetEdge(token_graph, from, edge) ==
    LET i == CHOOSE k \in 1..Len(token_graph) : token_graph[k].token = from
    IN  [token_graph EXCEPT ![i].edges = DictSet(@, edge)]

\* A two-token pool without id never gets here: the cross-venue scan, which
\* runs first over the same pools, has raised on it.
AddPoolToGraph(token_graph, pool) ==
    IF IsTwoTokenPool(pool)
    THEN LET fee == PoolGet(pool, "feeTier", DefaultFeeTier)
             forward == [to |-> pool.token1, pool_id |-> pool.id, fee |-> fee,
                         price |-> PriceOf(pool.reserve1, pool.reserve0)]
             reverse == [to |-> pool.token0, pool_id |-> pool.id, fee |-> fee,
                         price |-> PriceOf(pool.reserve0, pool.reserve1)]
         IN  SetEdge(SetEdge(EnsureToken(EnsureToken(token_graph, pool.token0), pool.token1),
                             pool.token0, forward),
                     pool.token1, reverse)
    ELSE token_graph

RECURSIVE BuildGraph(_, _, _)
BuildGraph(token_graph, pools, k) ==
    IF k > Len(pools) THEN token_graph
    ELSE BuildGraph(AddPoolToGraph(token_graph, pools[k]), pools, k + 1)

\* token_graph.get(t, {})
EdgesOf(token_graph, t) ==
    IF GraphHas(token_graph, t)
    THEN (CHOOSE e \in {token_graph[i] : i \in 1..Len(token_graph)} : e.token = t).edges
    ELSE <<>>

HasEdge(token_graph, from, to) ==
    \E j \in 1..Len(EdgesOf(token_graph, from)) : EdgesOf(token_graph, from)[j].to = to

\* token_graph[from][to]
EdgeOf(token_graph, from, to) ==
    LET edges == EdgesOf(token_graph, from)
    IN  CHOOSE e \in {edges[j] : j \in 1..Len(edges)} : e.to = to

TriangularNetProfit(round_trip_rate, total_fee) ==
    RSub(RSub(RSub(round_trip_rate, One), total_fee), TriangularGasCostPct)

TriangularOpportunity(venue, token_a, ab, bc, ca) ==
    LET round_trip_rate == RMul(RMul(ab.price, bc.price), ca.price)
        total_fee == RAdd(RAdd(ab.fee, bc.fee), ca.fee)
    IN  [type |-> "triangular", dex_id |-> venue[1], network_id |-> venue[2],
         token_a |-> token_a, token_b |-> ab.to, token_c |-> bc.to,
         price_a_to_b |-> ab.price, price_b_to_c |-> bc.price, price_c_to_a |-> ca.price,
         round_trip_rate |-> round_trip_rate,
         pool_a_to_b |-> ab.pool_id, pool_b_to_c |-> bc.pool_id, pool_c_to_a |-> ca.pool_id,
         total_fee |-> total_fee,
         estimated_gas_cost_pct |-> TriangularGasCostPct,
         net_profit_pct |-> TriangularNetProfit(round_trip_rate, total_fee)]

TriangularEmitsAlways(opp) == TRUE

TriangularEmits(opp) == RGeq(opp.net_profit_pct, MIN_PROFIT_THRESHOLD)

\* if token_c in token_graph and token_a in token_graph.get(token_c, {})
ClosesTriangle(token_graph, token_a, token_c) ==
    GraphHas(token_graph, token_c) /\ HasEdge(token_graph, token_c, token_a)

\* for token_c in token_graph.get(token_b, {})
RECURSIVE ScanC(_, _, _, _, _, _)
ScanC(token_graph, venue, token_a, ab, k, found) ==
    LET legs == EdgesOf(token_graph, ab.to)
    IN  IF k > Len(legs) THEN found
        ELSE LET bc == legs[k]
                 opp == TriangularOpportunity(venue, token_a, ab, bc,
                                              EdgeOf(token_graph, bc.to, token_a))
             IN  ScanC(token_graph, venue, token_a, ab, k + 1,
                       IF ClosesTriangle(token_graph, token_a, bc.to) /\ TriangularEmits(opp)
                       THEN Append(found, opp) ELSE found)

\* for token_b in token_graph.get(token_a, {})
RECURSIVE ScanB(_, _, _, _, _)
ScanB(token_graph, venue, token_a, k, found) ==
    LET legs == EdgesOf(token_graph, token_a)
    IN  IF k > Len(legs) THEN found
        ELSE ScanB(token_graph, venue, token_a, k + 1,
                   ScanC(token_graph, venue, token_a, legs[k], 1, found))

\* a variant that starts from the first token only
RECURSIVE ScanFirstToken(_, _, _, _)
ScanFirstToken(token_graph, venue, k, found) ==
    IF k > Len(token_graph) \/ k > 1 THEN found
    ELSE ScanFirstToken(token_graph, venue, k + 1,
                        ScanB(token_graph, venue, token_graph[k].token, 1, found))

\* for token_a in token_graph
RECURSIVE ScanA(_, _, _, _)
ScanA(token_graph, venue, k, found) ==
    IF k > Len(token_graph) THEN found
    ELSE ScanA(token_graph, venue, k + 1,
               ScanB(token_graph, venue, token_graph[k].token, 1, found))

ScanVenue(venue, pools, found) ==
    IF Len(pools) < 3 THEN found
    ELSE ScanA(BuildGraph(<<>>, pools, 1), venue, 1, found)

RECURSIVE ScanVenues(_, _, _)
ScanVenues(all_pools, v, found) ==
    IF v > Len(VenueOrder) THEN found
    ELSE ScanVenues(all_pools, v + 1,
                    ScanVenue(VenueOrder[v], all_pools[VenueOrder[v]], found))

analyze_triangular_opportunities(all_pools, found) == ScanVenues(all_pools, 1, found)

-----------------------------------------------------------------------------
(* PriceAnalyzer.get_arbitrage_opportunities: the ranker (analyzer.py:277-293) *)

\* [opp for opp in price_discrepancies if opp["net_profit_pct"] >= min_profit]
RECURSIVE FilterByProfit(_, _)
FilterByProfit(opps, min_profit) ==
    IF opps = <<>> THEN <<>>
    ELSE LET rest == FilterByProfit(Tail(opps), min_profit)
         IN  IF RGeq(Head(opps).net_profit_pct, min_profit)
             THEN <<Head(opps)>> \o rest ELSE rest

\* an unstable variant: x goes before the entries whose key equals its own
RECURSIVE InsertBeforeEqual(_, _, _)
InsertBeforeEqual(sorted, x, key) ==
    IF sorted = <<>> THEN <<x>>
    ELSE IF RLeq(Head(sorted)[key], x[key]) THEN <<x>> \o sorted
    ELSE <<Head(sorted)>> \o InsertBeforeEqual(Tail(sorted), x, key)

\* place x after every entry whose key is >= its own: what a stable sort with
\* reverse=True does with the next element of its input
RECURSIVE InsertDescending(_, _, _)
InsertDescending(sorted, x, key) ==
    IF sorted = <<>> THEN <<x>>
    ELSE IF RLess(Head(sorted)[key], x[key]) THEN <<x>> \o sorted
    ELSE <<Head(sorted)>> \o InsertDescending(Tail(sorted), x, key)

\* sorted(xs, key=lambda x: x[key], reverse=True)
RECURSIVE SortDescendingFrom(_, _, _, _)
SortDescendingFrom(xs, k, key, sorted) ==
    IF k > Len(xs) THEN sorted
    ELSE SortDescendingFrom(xs, k + 1, key, InsertDescending(sorted, xs[k], key))

\* a variant that is not stable: it takes the entries from the last to the first
SortFromTheEnd(xs, key) ==
    SortDescendingFrom([i \in 1..Len(xs) |-> xs[Len(xs) + 1 - i]], 1, key, <<>>)

SortDescending(xs, key) == SortDescendingFrom(xs, 1, key, <<>>)

SliceToEnd(xs, limit) == xs

\* xs[:limit], the Python slice: a negative limit counts from the end
SliceTo(xs, limit) ==
    LET stop == IF limit >= 0
                THEN (IF limit < Len(xs) THEN limit ELSE Len(xs))
                ELSE (IF Len(xs) + limit > 0 THEN Len(xs) + limit ELSE 0)
    IN  SubSeq(xs, 1, stop)

get_arbitrage_opportunities(stored, min_profit, limit) ==
    SliceTo(SortDescending(FilterByProfit(stored, min_profit), "net_profit_pct"), limit)

-----------------------------------------------------------------------------
(* ArbitrageDetector: the validator (detector.py:98-379)                   *)

\* MarketDataCollector.get_liquidity_pools: liquidity_pools.get(key, [])
get_liquidity_pools(all_pools, dex_id, network_id) ==
    IF <<dex_id, network_id>> \in DOMAIN all_pools
    THEN all_pools[<<dex_id, network_id>>] ELSE <<>>

PlaceholderPool(pool_id) ==
    [id |-> pool_id, reserveUSD |-> PlaceholderReserveUSD, volumeUSD24h |-> 1000000]

\* the first pool of the venue with that id, else the placeholder record
get_pool_details(all_pools, dex_id, network_id, pool_id) ==
    LET pools == get_liquidity_pools(all_pools, dex_id, network_id)
        hits == {k \in 1..Len(pools) : PoolGet(pools[k], "id", "") = pool_id}
    IN  IF hits # {}
        THEN pools[CHOOSE k \in hits : \A h \in hits : k <= h]
        ELSE PlaceholderPool(pool_id)

\* "not pool": None or an empty dict
NoPool(pool) == DOMAIN pool = {}

Min2(a, b) == IF b < a THEN b ELSE a

Min3(a, b, c) == Min2(Min2(a, b), c)

UncappedTradeSize(buy_liquidity, sell_liquidity, profit_pct) ==
    RMul(RMul(RInt(Min2(buy_liquidity, sell_liquidity)), Rat(5, 1000)),
         RAdd(One, RMul(profit_pct, RInt(10))))

calculate_optimal_trade_size(buy_liquidity, sell_liquidity, profit_pct) ==
    LET base_size == RMul(RInt(Min2(buy_liquidity, sell_liquidity)), Rat(5, 1000))
        profit_multiplier == RAdd(One, RMul(profit_pct, RInt(10)))
        max_size == RMul(RInt(Min2(buy_liquidity, sell_liquidity)), Rat(5, 100))
    IN  RMin(RMul(base_size, profit_multiplier), max_size)

calculate_optimal_trade_size_triangular(liquidity_a_to_b, liquidity_b_to_c, liquidity_c_to_a, profit_pct) ==
    LET smallest == Min3(liquidity_a_to_b, liquidity_b_to_c, liquidity_c_to_a)
        base_size == RMul(RInt(smallest), Rat(3, 1000))
        profit_multiplier == RAdd(One, RMul(profit_pct, RInt(8)))
        max_size == RMul(RInt(smallest), Rat(3, 100))
    IN  RMin(RMul(base_size, profit_multiplier), max_size)

ClampRiskAtZeroOnly(risk_score) == RMax(Zero, risk_score)

\* max(0, min(100, risk_score))
ClampRisk(risk_score) == RMax(Zero, RMin(RInt(100), risk_score))

calculate_risk_score(profit_pct, buy_liquidity, sell_liquidity, cross_network) ==
    LET min_liquidity == Min2(buy_liquidity, sell_liquidity)
        liquidity_risk == IF min_liquidity < 100000 THEN 20
                          ELSE IF min_liquidity < 500000 THEN 10
                          ELSE IF min_liquidity < 1000000 THEN 5 ELSE 0
        network_risk == IF cross_network THEN 15 ELSE 0
    IN  ClampRisk(RAdd(RAdd(RAdd(RInt(50), RMul(profit_pct, RInt(1000))),
                            RInt(liquidity_risk)), RInt(network_risk)))

\* The source of calculate_risk_score_triangular ends inside its liquidity
\* tiers (detector.py:379).  What follows the first tier is taken from the
\* design document: the lower tiers and the clamp to [0, 100].
TriangularLowerTiers(min_liquidity) ==
    IF min_liquidity < 500000 THEN 10
    ELSE IF min_liquidity < 1000000 THEN 5 ELSE 0

TriangularClampRisk(risk_score) == RMax(Zero, RMin(RInt(100), risk_score))

calculate_risk_score_triangular(profit_pct, liquidity_a_to_b, liquidity_b_to_c, liquidity_c_to_a) ==
    LET min_liquidity == Min3(liquidity_a_to_b, liquidity_b_to_c, liquidity_c_to_a)
        liquidity_risk == IF min_liquidity < 100000 THEN 25
                          ELSE TriangularLowerTiers(min_liquidity)
    IN  TriangularClampRisk(RAdd(RAdd(RInt(40), RMul(profit_pct, RInt(1200))),
                                 RInt(liquidity_risk)))

\* validation_details as validate_opportunity creates it
InitialDetails ==
    [is_valid |-> FALSE, validation_message |-> "", expected_profit_usd |-> Zero,
     max_trade_size_usd |-> Zero, optimal_trade_size_usd |-> Zero, risk_score |-> Zero]

\* {**a, **b} and a.update(b)
Merge(a, b) ==
    [k \in DOMAIN a \cup DOMAIN b |-> IF k \in DOMAIN b THEN b[k] ELSE a[k]]

Rejected(message) ==
    [is_valid |-> FALSE,
     details |-> [InitialDetails EXCEPT !.validation_message = message]]

\* an exception leaves the function instead of a return value
Raised == [raised |-> TRUE]

IsRaised(outcome) == "raised" \in DOMAIN outcome

\* A value that is not a number, None or a string, is a record without
\* numerator and denominator.
NotANumber == [text |-> "n/a"]

\* opportunity[field] is there and arithmetic on it does not raise
HasNumber(opportunity, field) ==
    /\ field \in DOMAIN opportunity
    /\ DOMAIN opportunity[field] = {"n", "d"}

\* the keys validate_cross_dex_opportunity reads before it looks at liquidity
CrossDexKeys ==
    {"token0", "token1", "buy_dex", "buy_network", "buy_pool",
     "sell_dex", "sell_network", "sell_pool"}

\* the keys validate_triangular_opportunity reads before it looks at liquidity
TriangularKeys == {"dex_id", "network_id", "pool_a_to_b", "pool_b_to_c", "pool_c_to_a"}

InsufficientOnSellSide(buy_liquidity_usd, sell_liquidity_usd) ==
    sell_liquidity_usd < MIN_LIQUIDITY_THRESHOLD

\* if buy_liquidity_usd < self.min_liquidity or sell_liquidity_usd < self.min_liquidity
InsufficientLiquidity(buy_liquidity_usd, sell_liquidity_usd) ==
    \/ buy_liquidity_usd < MIN_LIQUIDITY_THRESHOLD
    \/ sell_liquidity_usd < MIN_LIQUIDITY_THRESHOLD

validate_cross_dex_opportunity(all_pools, opportunity) ==
    LET buy_pool == get_pool_details(all_pools, opportunity.buy_dex,
                                     opportunity.buy_network, opportunity.buy_pool)
        sell_pool == get_pool_details(all_pools, opportunity.sell_dex,
                                      opportunity.sell_network, opportunity.sell_pool)
        buy_liquidity_usd == PoolGet(buy_pool, "reserveUSD", 0)
        sell_liquidity_usd == PoolGet(sell_pool, "reserveUSD", 0)
        max_trade_size_usd == RMul(RInt(Min2(buy_liquidity_usd, sell_liquidity_usd)),
                                   Rat(5, 100))
        optimal_trade_size_usd ==
            calculate_optimal_trade_size(buy_liquidity_usd, sell_liquidity_usd,
                                         opportunity.net_profit_pct)
    IN  IF ~(CrossDexKeys \subseteq DOMAIN opportunity)
        THEN Raised                       \* KeyError
        ELSE IF NoPool(buy_pool) \/ NoPool(sell_pool)
        THEN Rejected("Could not retrieve pool details")
        ELSE IF InsufficientLiquidity(buy_liquidity_usd, sell_liquidity_usd)
        THEN Rejected("Insufficient liquidity")
        ELSE IF ~HasNumber(opportunity, "net_profit_pct")
        THEN Raised                       \* KeyError or TypeError
        ELSE [is_valid |-> TRUE,
              details |-> Merge(InitialDetails,
                  [is_valid |-> TRUE,
                   validation_message |-> "Opportunity validated successfully",
                   expected_profit_usd |->
                       RMul(optimal_trade_size_usd, opportunity.net_profit_pct),
                   max_trade_size_usd |-> max_trade_size_usd,
                   optimal_trade_size_usd |-> optimal_trade_size_usd,
                   risk_score |->
                       calculate_risk_score(opportunity.net_profit_pct,
                           buy_liquidity_usd, sell_liquidity_usd,
                           opportunity.buy_network # opportunity.sell_network),
                   buy_liquidity_usd |-> buy_liquidity_usd,
                   sell_liquidity_usd |-> sell_liquidity_usd])]

validate_triangular_opportunity(all_pools, opportunity) ==
    LET pool_a_to_b == get_pool_details(all_pools, opportunity.dex_id,
                                        opportunity.network_id, opportunity.pool_a_to_b)
        pool_b_to_c == get_pool_details(all_pools, opportunity.dex_id,
                                        opportunity.network_id, opportunity.pool_b_to_c)
        pool_c_to_a == get_pool_details(all_pools, opportunity.dex_id,
                                        opportunity.network_id, opportunity.pool_c_to_a)
        liquidity_a_to_b == PoolGet(pool_a_to_b, "reserveUSD", 0)
        liquidity_b_to_c == PoolGet(pool_b_to_c, "reserveUSD", 0)
        liquidity_c_to_a == PoolGet(pool_c_to_a, "reserveUSD", 0)
        min_liquidity == Min3(liquidity_a_to_b, liquidity_b_to_c, liquidity_c_to_a)
        gain == RSub(opportunity.round_trip_rate, One)
        optimal_trade_size_usd ==
            calculate_optimal_trade_size_triangular(liquidity_a_to_b, liquidity_b_to_c,
                                                    liquidity_c_to_a, gain)
    IN  IF ~(TriangularKeys \subseteq DOMAIN opportunity)
        THEN Raised                       \* KeyError
        ELSE IF NoPool(pool_a_to_b) \/ NoPool(pool_b_to_c) \/ NoPool(pool_c_to_a)
        THEN Rejected("Could not retrieve pool details")
        ELSE IF min_liquidity < MIN_LIQUIDITY_THRESHOLD
        THEN Rejected("Insufficient liquidity")
        ELSE IF ~HasNumber(opportunity, "round_trip_rate")
                 \/ ~HasNumber(opportunity, "total_fee")
        THEN Raised                       \* KeyError or TypeError
        ELSE [is_valid |-> TRUE,
              details |-> Merge(InitialDetails,
                  [is_valid |-> TRUE,
                   validation_message |-> "Opportunity validated successfully",
                   expected_profit_usd |->
                       RMul(optimal_trade_size_usd, RSub(gain, opportunity.total_fee)),
                   max_trade_size_usd |-> RMul(RInt(min_liquidity), Rat(3, 100)),
                   optimal_trade_size_usd |-> optimal_trade_size_usd,
                   risk_score |->
                       calculate_risk_score_triangular(gain, liquidity_a_to_b,
                                                       liquidity_b_to_c, liquidity_c_to_a),
                   liquidity_a_to_b |-> liquidity_a_to_b,
                   liquidity_b_to_c |-> liquidity_b_to_c,
                   liquidity_c_to_a |-> liquidity_c_to_a])]

\* the try block of validate_opportunity
ValidateByType(all_pools, opportunity) ==
    IF "type" \notin DOMAIN opportunity THEN Raised      \* KeyError
    ELSE IF opportunity.type = "cross_dex"
    THEN validate_cross_dex_opportunity(all_pools, opportunity)
    ELSE IF opportunity.type = "triangular"
    THEN validate_triangular_opportunity(all_pools, opportunity)
    ELSE Rejected("Unknown opportunity type")

\* a variant without the except clause: the exception goes to the caller
ValidateWithoutExcept(all_pools, opportunity) == ValidateByType(all_pools, opportunity)

\* The except clause turns every exception of the try block into a
\* rejection; its message is "Validation error: " and the exception's text,
\* of which the model keeps the first part.
validate_opportunity(all_pools, opportunity) ==
    LET outcome == ValidateByType(all_pools, opportunity)
    IN  IF IsRaised(outcome) THEN Rejected("Validation error") ELSE outcome

\* the opportunity names the pools of its legs
NamesLegs(opportunity) ==
    /\ "type" \in DOMAIN opportunity
    /\ \/ opportunity.type = "cross_dex" /\ CrossDexKeys \subseteq DOMAIN opportunity
       \/ opportunity.type = "triangular" /\ TriangularKeys \subseteq DOMAIN opportunity

\* the venue and the pool ids an opportunity names, leg by leg
LegsOf(opportunity) ==
    IF opportunity.type = "cross_dex"
    THEN <<[dex_id |-> opportunity.buy_dex, network_id |-> opportunity.buy_network,
            pool_id |-> opportunity.buy_pool],
           [dex_id |-> opportunity.sell_dex, network_id |-> opportunity.sell_network,
            pool_id |-> opportunity.sell_pool]>>
    ELSE [k \in 1..3 |->
             [dex_id |-> opportunity.dex_id, network_id |-> opportunity.network_id,
              pool_id |-> IF k = 1 THEN opportunity.pool_a_to_b
                          ELSE IF k = 2 THEN opportunity.pool_b_to_c
                          ELSE opportunity.pool_c_to_a]]

\* for pool in pools: if pool.get("id") == pool_id
PoolKnown(all_pools, leg) ==
    LET pools == get_liquidity_pools(all_pools, leg.dex_id, leg.network_id)
    IN  \E k \in 1..Len(pools) : PoolGet(pools[k], "id", "") = leg.pool_id

\* One pass over opportunities: for each, the (is_valid, validation_details)
\* pair validate_opportunity returned, next to the opportunity and to what the
\* pool store held for its legs at that moment.
ValidationResults(all_pools, opps) ==
    [i \in 1..Len(opps) |->
        CHOOSE entry \in
            {LET legs == IF NamesLegs(opps[i]) THEN LegsOf(opps[i]) ELSE <<>>
                 \* an exception of validate_opportunity is logged and the
                 \* opportunity left out (detector.py:90-91)
                 result == IF IsRaised(outcome)
                           THEN [is_valid |-> FALSE, details |-> <<>>]
                           ELSE outcome
             IN  [opportunity |-> opps[i],
                  raised |-> IsRaised(outcome),
                  known |-> [k \in 1..Len(legs) |-> PoolKnown(all_pools, legs[k])],
                  liquidity |-> [k \in 1..Len(legs) |->
                                    PoolGet(get_pool_details(all_pools, legs[k].dex_id,
                                                legs[k].network_id, legs[k].pool_id),
                                            "reserveUSD", 0)],
                  is_valid |-> result.is_valid,
                  details |-> result.details] :
                 \* validate_opportunity is called once for the opportunity
                 outcome \in {validate_opportunity(all_pools, opps[i])}} : TRUE]

\* a variant that keeps every opportunity, valid or not
ValidatedFromAll(opps, results, k) ==
    [i \in 1..Len(opps) |-> Merge(opps[i], results[i].details)]

\* validated: {**opp, **validation_details} of every valid one, in order
RECURSIVE ValidatedFrom(_, _, _)
ValidatedFrom(opps, results, k) ==
    IF k > Len(opps) THEN <<>>
    ELSE (IF results[k].is_valid THEN <<Merge(opps[k], results[k].details)>> ELSE <<>>)
         \o ValidatedFrom(opps, results, k + 1)

\* what validate_opportunities leaves in validated_opportunities, and what
\* validate_opportunity returned on the way
\* the loop runs once, then the list it built is sorted
validate_opportunities(all_pools, opps) ==
    CHOOSE out \in
        {[results |-> results,
          validated |-> SortDescending(validated, "expected_profit_usd")] :
             <<results, validated>> \in
                 {<<r, ValidatedFrom(opps, r, 1)>> :
                      r \in {ValidationResults(all_pools, opps)}}} : TRUE

-----------------------------------------------------------------------------
(* The state machine.  The time gates of analyze_prices and                *)
(* detect_opportunities only decide when a cycle runs; here a cycle may    *)
(* run at any time, which allows every order of cycles the gates allow.    *)
(* Spec follows the collector, the analyzer and the detector from         *)
(* construction through the first update of the pool store and one more    *)
(* fetch of one venue.  ScanSpec follows the analyzer and its readers over *)
(* every pool store, the lists in any order.                               *)

\* arguments the readers pass to get_arbitrage_opportunities
MinProfits == {MIN_PROFIT_THRESHOLD, One}

Limits == {-1, 0, 1, 2, DefaultLimit}

NoCall == [called |-> FALSE]

detection_interval == 30                       \* detector.py:36, seconds

RetryDelay == 5                                \* detector.py:50, __init__.py:52, seconds

\* the state of the two loops, start_detection and MarketDataService.start
loops == <<since_last_detection, detector_pc, running, service_pc>>

\* the invocations of analyze_prices and the state of the executor
extras == <<analysis_pc, since_last_analysis, pending_executions, execution_results,
            execution_tasks, wallet_address, web3_clients, skipped>>

\* how many tasks may call analyze_prices
MaxInvocations == 2

\* the tasks that may call analyze_prices
Invocations == 1..MaxInvocations

analysis_interval == 30                        \* analyzer.py:33, seconds

\* wallet_address when no private key is configured
None == "None"

\* an invocation of analyze_prices that has not been made, or has returned;
\* waited is the time since the invocation read time.time()
NotCalled == [at |-> "idle", waited |-> 0]

\* Neither loop has started.  last_detection = 0 and time.time() counts from
\* 1970: the first call of detect_opportunities finds the window passed.
NotStarted ==
    /\ since_last_detection = detection_interval
    /\ detector_pc = "detect"
    /\ running = FALSE
    /\ service_pc = "idle"
    /\ analysis_pc = [c \in Invocations |-> NotCalled]
    /\ since_last_analysis = analysis_interval

\* FlashloanExecutor.__init__, before initialize_web3_clients and
\* initialize_wallet
NothingExecuted ==
    /\ pending_executions = <<>>
    /\ execution_results = <<>>
    /\ execution_tasks = {}
    /\ skipped = <<>>

\* the collector, the analyzer and the detector after __init__
NothingAnalyzed ==
    /\ price_discrepancies = <<>>
    /\ analysis_log = "none"
    /\ opportunities = <<>>
    /\ validated_opportunities = <<>>
    /\ validation_log = <<>>
    /\ returned = NoCall
    /\ collected = "nothing"
    /\ assessed = NoCall

\* no network is enabled and no private key configured
NoWallet ==
    /\ wallet_address = None
    /\ web3_clients = {}

Constructed ==
    /\ NotStarted
    /\ NothingExecuted
    /\ NoWallet
    /\ NothingAnalyzed

\* MarketDataCollector.__init__: liquidity_pools = {}
EmptyStore == [v \in Venues |-> <<>>]

Init == liquidity_pools = EmptyStore /\ Constructed

\* MarketDataCollector.update_liquidity_pools: the fetch of every enabled
\* venue, one after the other
UpdateLiquidityPools ==
    /\ collected = "nothing"
    /\ collected' = "all"
    /\ liquidity_pools' \in FetchedSnapshots
    /\ returned' = NoCall
    /\ UNCHANGED <<loops, extras, price_discrepancies, analysis_log, opportunities,
                   validated_opportunities, validation_log, assessed>>

\* what a fetch of each venue can store
Reports == [venue \in Venues |-> FetchedLists(venue)]

\* MarketDataCollector.fetch_dex_pools: one venue's list is replaced by what
\* the venue reports now
FetchDexPools(venue) ==
    /\ collected = "all"
    /\ collected' = "again"
    /\ \E pools \in Reports[venue] :
           liquidity_pools' = [liquidity_pools EXCEPT ![venue] = pools]
    /\ returned' = NoCall
    /\ UNCHANGED <<loops, extras, price_discrepancies, analysis_log, opportunities,
                   validated_opportunities, validation_log, assessed>>

\* a variant without the clearing of line 47: the scans append to what the
\* cycle before left
AnalysisKeeping(all_pools) ==
    LET cross == analyze_cross_dex_opportunities(all_pools, price_discrepancies)
    IN  IF cross.raised THEN cross
        ELSE [found |-> analyze_triangular_opportunities(all_pools, cross.found),
              raised |-> FALSE]

\* the try block of analyze_prices: what price_discrepancies holds when it
\* ends, and whether it ended in the except clause
AnalysisOf(all_pools) ==
    LET cross == analyze_cross_dex_opportunities(all_pools, <<>>)
    IN  IF cross.raised THEN cross
        ELSE [found |-> analyze_triangular_opportunities(all_pools, cross.found),
              raised |-> FALSE]

AnalyzePrices ==
    /\ collected # "nothing"
    /\ LET analysis == AnalysisOf(liquidity_pools)
       IN  /\ price_discrepancies' = analysis.found
           /\ analysis_log' = IF analysis.raised THEN "error" ELSE "completed"
    /\ returned' = NoCall
    /\ UNCHANGED <<loops, extras, liquidity_pools, opportunities, validated_opportunities,
                   validation_log, collected, assessed>>

\* a reader's call of get_arbitrage_opportunities(min_profit, limit)
GetArbitrageOpportunities(min_profit, limit) ==
    /\ returned' = [called |-> TRUE, min_profit |-> min_profit, limit |-> limit,
                    stored |-> price_discrepancies,
                    value |-> get_arbitrage_opportunities(price_discrepancies,
                                                          min_profit, limit)]
    /\ UNCHANGED <<loops, extras, liquidity_pools, price_discrepancies, analysis_log, opportunities,
                   validated_opportunities, validation_log, collected, assessed>>

\* ArbitrageDetector.detect_opportunities with validate_opportunities, when
\* the detection window has passed, and the sleep of start_detection that
\* follows it, after which the window has passed again
DetectOpportunities ==
    /\ \E raw_opportunities \in
               {get_arbitrage_opportunities(price_discrepancies, MIN_PROFIT_THRESHOLD,
                                            DefaultLimit)} :
       \E validation \in {validate_opportunities(liquidity_pools, raw_opportunities)} :
           /\ opportunities' = raw_opportunities
           /\ validation_log' = validation.results
           /\ validated_opportunities' = validation.validated
    /\ returned' = NoCall
    /\ UNCHANGED <<loops, extras, liquidity_pools, price_discrepancies, analysis_log, collected,
                   assessed>>

Next ==
    \/ UpdateLiquidityPools
    \/ \E venue \in Venues : FetchDexPools(venue)
    \/ AnalyzePrices
    \/ DetectOpportunities

Spec == Init /\ [][Next]_vars

\* ScanSpec starts from a pool store updated any number of times
ScanInit ==
    /\ liquidity_pools \in Snapshots
    /\ price_discrepancies = <<>>
    /\ analysis_log = "none"
    /\ opportunities = <<>>
    /\ validated_opportunities = <<>>
    /\ validation_log = <<>>
    /\ returned = NoCall
    /\ collected = "again"
    /\ assessed = NoCall
    /\ NotStarted
    /\ NothingExecuted
    /\ NoWallet

\* The store does not change in ScanSpec, so a second analysis would store
\* the list the first one stored, and a call returns the same whatever call
\* came before it: one analysis per store and one call per stored list reach
\* every state.
ScanNext ==
    \/ analysis_log = "none" /\ AnalyzePrices
    \/ \E min_profit \in MinProfits : \E limit \in Limits :
           returned = NoCall /\ GetArbitrageOpportunities(min_profit, limit)

ScanSpec == ScanInit /\ [][ScanNext]_vars

\* MalformedSpec starts from a pool store that may hold malformed records
MalformedLists(venue) ==
    IF venue = UniswapPolygon
    THEN {fetch_dex_pools(venue, sample_pools) : sample_pools \in
              PoolLists({pool \in PolygonPools : pool.id \in {"p1", "p2", "p3", "p4"}}
                            \cup MalformedPolygonPools, MaxPools)}
    ELSE IF venue = UniswapBase
    THEN {fetch_dex_pools(venue, sample_pools) : sample_pools \in
              PoolLists({pool \in BasePools : pool.id = "b1"}, 1)}
    ELSE {fetch_dex_pools(venue, sample_pools) : sample_pools \in
              PoolLists({pool \in CurvePools : pool.id = "c1"} \cup MalformedCurvePools, 1)}

MalformedSnapshots ==
    SnapshotsOf(MalformedLists(UniswapPolygon), MalformedLists(UniswapBase),
                MalformedLists(CurvePolygon))

MalformedInit ==
    /\ liquidity_pools \in MalformedSnapshots
    /\ price_discrepancies = <<>>
    /\ analysis_log = "none"
    /\ opportunities = <<>>
    /\ validated_opportunities = <<>>
    /\ validation_log = <<>>
    /\ returned = NoCall
    /\ collected = "again"
    /\ assessed = NoCall
    /\ NotStarted
    /\ NothingExecuted
    /\ NoWallet

MalformedSpec == MalformedInit /\ [][ScanNext]_vars

-----------------------------------------------------------------------------
(* ValidateSpec: the detector over a market data service that returns any  *)
(* list of opportunities, well-formed or not.                              *)

MaxRaw == 3            \* longest list the market data service returns

PoolById(venue, id) == CHOOSE pool \in PoolsOf(venue) : pool.id = id

\* a pool store after an update of every venue
SampleStore ==
    [v \in Venues |->
        IF v = UniswapPolygon
        THEN <<PoolById(v, "p1"), PoolById(v, "p2"), PoolById(v, "p3")>>
        ELSE IF v = UniswapBase THEN <<PoolById(v, "b1")>>
        ELSE <<PoolById(v, "c1")>>]

\* the stores the detector looks pools up in: empty, filled, and filled but
\* for one venue
ValidateStores ==
    {EmptyStore, SampleStore, [SampleStore EXCEPT ![UniswapBase] = <<>>]}

\* what the analyzer stores for the sample store
SoundOpportunities ==
    LET found == AnalysisOf(SampleStore).found
    IN  {found[i] : i \in 1..Len(found)}

SoundCrossDex ==
    CHOOSE opp \in SoundOpportunities : opp.type = "cross_dex" /\ opp.buy_pool = "p1"

SoundTriangular ==
    CHOOSE opp \in SoundOpportunities : opp.type = "triangular" /\ opp.token_a = "WETH"

\* the dict without one of its keys
Without(opportunity, field) ==
    [f \in DOMAIN opportunity \ {field} |-> opportunity[f]]

\* the opportunities a market data service can return: those of the
\* analyzer, a dict without type, one of an unknown type, some without a key
\* the validator reads, some with a value that is not a number
RawOpportunities ==
    {opp \in SoundOpportunities : opp.type = "cross_dex"}
        \cup {SoundTriangular,
              [id |-> 1, profit |-> Rat(5, 100)],
              [type |-> "flash_loan", net_profit_pct |-> Rat(5, 100)],
              Without(SoundCrossDex, "buy_pool"),
              [SoundCrossDex EXCEPT !.net_profit_pct = NotANumber],
              Without(SoundTriangular, "total_fee"),
              [SoundTriangular EXCEPT !.round_trip_rate = NotANumber]}

RECURSIVE RawLists(_)
RawLists(k) ==
    IF k = 0 THEN {<<>>}
    ELSE RawLists(k - 1) \cup
         {Append(l, opp) : <<l, opp>> \in
             {lo \in RawLists(k - 1) \X RawOpportunities : Len(lo[1]) = k - 1}}

ValidateInit ==
    /\ liquidity_pools \in ValidateStores
    /\ collected = "all"
    /\ price_discrepancies = <<>>
    /\ analysis_log = "none"
    /\ opportunities = <<>>
    /\ validated_opportunities = <<>>
    /\ validation_log = <<>>
    /\ returned = NoCall
    /\ assessed = NoCall
    /\ NotStarted
    /\ NothingExecuted
    /\ NoWallet

\* detect_opportunities when self.market_data.get_arbitrage_opportunities
\* returns raw_opportunities
DetectOpportunitiesFrom(raw_opportunities) ==
    /\ \E validation \in {validate_opportunities(liquidity_pools, raw_opportunities)} :
           /\ opportunities' = raw_opportunities
           /\ validation_log' = validation.results
           /\ validated_opportunities' = validation.validated
    /\ UNCHANGED <<loops, extras, liquidity_pools, price_discrepancies, analysis_log, collected,
                   returned, assessed>>

\* The store does not change in ValidateSpec and a cycle keeps nothing of
\* the cycle before it: one cycle per store and list reaches every state.
ValidateNext ==
    \E raw_opportunities \in RawLists(MaxRaw) :
        opportunities = <<>> /\ DetectOpportunitiesFrom(raw_opportunities)

ValidateSpec == ValidateInit /\ [][ValidateNext]_vars

-----------------------------------------------------------------------------
(* LoopSpec: the two loops, start_detection of the detector and start of   *)
(* the market data service, with the calls they make, next to a task that  *)
(* calls detect_opportunities on its own and one that calls stop.  A call  *)
(* the loop awaits either returns or raises: fails says which.  Time is    *)
(* what the detector's sleeps let pass.                                    *)

\* the stores an update of the market data leaves
LoopSnapshots == ValidateStores \ {EmptyStore}

\* time.time() after that many seconds more, as the age of last_detection
Elapse(age, seconds) == Min2(age + seconds, detection_interval)

\* a variant without the time gate
NeverTooEarly(age) == FALSE

\* if current_time - self.last_detection < self.detection_interval: return
TooEarly(age) == age < detection_interval

\* detect_opportunities, from its first line to its last
detect_opportunities ==
    IF TooEarly(since_last_detection)
    THEN UNCHANGED <<opportunities, validation_log, validated_opportunities,
                     since_last_detection>>
    ELSE \E raw_opportunities \in
                 {get_arbitrage_opportunities(price_discrepancies, MIN_PROFIT_THRESHOLD,
                                              DefaultLimit)} :
         \E validation \in {validate_opportunities(liquidity_pools, raw_opportunities)} :
             /\ opportunities' = raw_opportunities
             /\ validation_log' = validation.results
             /\ validated_opportunities' = validation.validated
             /\ since_last_detection' = 0

\* a variant that lets the exception end start_detection
CrashOnException == "crashed"

\* except Exception in start_detection: log, then asyncio.sleep(5)
AfterException == "backoff"

\* await self.detect_opportunities() in start_detection
LoopDetect(fails) ==
    /\ detector_pc = "detect"
    /\ IF fails
       THEN /\ detector_pc' = AfterException
            /\ UNCHANGED <<opportunities, validation_log, validated_opportunities,
                           since_last_detection>>
       ELSE /\ detect_opportunities
            /\ detector_pc' = "sleep"
    /\ UNCHANGED <<extras, liquidity_pools, price_discrepancies, analysis_log, returned,
                   collected, assessed, running, service_pc>>

\* await asyncio.sleep(self.detection_interval) in start_detection
LoopSleep ==
    /\ detector_pc = "sleep"
    /\ detector_pc' = "detect"
    /\ since_last_detection' = Elapse(since_last_detection, detection_interval)
    /\ UNCHANGED <<extras, liquidity_pools, price_discrepancies, analysis_log, opportunities,
                   validated_opportunities, validation_log, returned, collected,
                   assessed, running, service_pc>>

\* await asyncio.sleep(5) in the except clause of start_detection
LoopBackoff ==
    /\ detector_pc = "backoff"
    /\ detector_pc' = "detect"
    /\ since_last_detection' = Elapse(since_last_detection, RetryDelay)
    /\ UNCHANGED <<extras, liquidity_pools, price_discrepancies, analysis_log, opportunities,
                   validated_opportunities, validation_log, returned, collected,
                   assessed, running, service_pc>>

\* a call of detect_opportunities by another task, at any time
CallDetectOpportunities ==
    /\ detect_opportunities
    /\ UNCHANGED <<extras, liquidity_pools, price_discrepancies, analysis_log, returned,
                   collected, assessed, detector_pc, running, service_pc>>

\* MarketDataService.start, up to its loop
Start ==
    /\ service_pc = "idle"
    /\ running' = TRUE
    /\ service_pc' = "test"
    /\ UNCHANGED <<extras, liquidity_pools, price_discrepancies, analysis_log, opportunities,
                   validated_opportunities, validation_log, returned, collected,
                   assessed, since_last_detection, detector_pc>>

\* MarketDataService.stop
Stop ==
    /\ running' = FALSE
    /\ UNCHANGED <<extras, liquidity_pools, price_discrepancies, analysis_log, opportunities,
                   validated_opportunities, validation_log, returned, collected,
                   assessed, since_last_detection, detector_pc, service_pc>>

\* a variant that never looks at the flag
LoopForever(flag) == TRUE

\* while self.running
LoopCondition(flag) == flag

ServiceTest ==
    /\ service_pc = "test"
    /\ service_pc' = IF LoopCondition(running) THEN "update" ELSE "returned"
    /\ UNCHANGED <<extras, liquidity_pools, price_discrepancies, analysis_log, opportunities,
                   validated_opportunities, validation_log, returned, collected,
                   assessed, since_last_detection, detector_pc, running>>

\* await self.collector.update_market_data() in start
ServiceUpdate(fails) ==
    /\ service_pc = "update"
    /\ IF fails
       THEN /\ service_pc' = "backoff"
            /\ UNCHANGED <<liquidity_pools, collected>>
       ELSE /\ service_pc' = "analyze"
            /\ liquidity_pools' \in LoopSnapshots
            /\ collected' = "all"
    /\ UNCHANGED <<extras, price_discrepancies, analysis_log, opportunities,
                   validated_opportunities, validation_log, returned, assessed,
                   since_last_detection, detector_pc, running>>

\* await self.analyzer.analyze_prices() in start
ServiceAnalyze(fails) ==
    /\ service_pc = "analyze"
    /\ IF fails
       THEN /\ service_pc' = "backoff"
            /\ UNCHANGED <<price_discrepancies, analysis_log>>
       ELSE /\ service_pc' = "sleep"
            /\ LET analysis == AnalysisOf(liquidity_pools)
               IN  /\ price_discrepancies' = analysis.found
                   /\ analysis_log' = IF analysis.raised THEN "error" ELSE "completed"
    /\ UNCHANGED <<extras, liquidity_pools, opportunities, validated_opportunities,
                   validation_log, returned, collected, assessed,
                   since_last_detection, detector_pc, running>>

\* await asyncio.sleep(self.update_interval) in start
ServiceSleep ==
    /\ service_pc = "sleep"
    /\ service_pc' = "test"
    /\ UNCHANGED <<extras, liquidity_pools, price_discrepancies, analysis_log, opportunities,
                   validated_opportunities, validation_log, returned, collected,
                   assessed, since_last_detection, detector_pc, running>>

\* await asyncio.sleep(5) in the except clause of start
ServiceBackoff ==
    /\ service_pc = "backoff"
    /\ service_pc' = "test"
    /\ UNCHANGED <<extras, liquidity_pools, price_discrepancies, analysis_log, opportunities,
                   validated_opportunities, validation_log, returned, collected,
                   assessed, since_last_detection, detector_pc, running>>

\* the steps of start_detection
DetectorStep ==
    \/ LoopSleep
    \/ LoopBackoff
    \/ LoopDetect(TRUE)
    \/ LoopDetect(FALSE)

\* the steps of the loop of start
ServiceStep ==
    \/ ServiceTest
    \/ ServiceSleep
    \/ ServiceBackoff
    \/ ServiceUpdate(TRUE)
    \/ ServiceUpdate(FALSE)
    \/ ServiceAnalyze(TRUE)
    \/ ServiceAnalyze(FALSE)

LoopInit == liquidity_pools = EmptyStore /\ Constructed

LoopNext ==
    \/ DetectorStep
    \/ CallDetectOpportunities
    \/ Start
    \/ Stop
    \/ ServiceStep

LoopSpec == LoopInit /\ [][LoopNext]_vars

\* The event loop resumes every task whose sleep or awaited call has ended.
LiveLoopSpec == LoopSpec /\ WF_vars(DetectorStep) /\ WF_vars(ServiceStep)

-----------------------------------------------------------------------------
(* ReentrySpec: analyze_prices called by several tasks of one event loop.  *)
(* An invocation runs from its first line to await update_market_data,     *)
(* where asyncio.gather hands control back to the loop, and from there to  *)
(* its end; detect_opportunities has no such point between its gate and    *)
(* its last line.                                                          *)

\* time.time() after that many seconds more, as the age of last_analysis
ElapseAnalysis(age, seconds) == Min2(age + seconds, analysis_interval)

\* if current_time - self.last_analysis < self.analysis_interval: return
AnalysisTooEarly(age) == age < analysis_interval

\* analyze_prices from its first line to await update_market_data
CallAnalyzePrices(c) ==
    /\ analysis_pc[c].at = "idle"
    /\ analysis_pc' =
           IF AnalysisTooEarly(since_last_analysis)
           THEN analysis_pc
           ELSE [analysis_pc EXCEPT ![c] = [at |-> "updating", waited |-> 0]]
    /\ UNCHANGED <<loops, liquidity_pools, price_discrepancies, analysis_log,
                   opportunities, validated_opportunities, validation_log, returned,
                   collected, assessed, since_last_analysis, pending_executions,
                   execution_results, execution_tasks, wallet_address, web3_clients,
                   skipped>>

\* analyze_prices from the end of update_market_data, which stored the
\* pools it fetched or left the store as it was, to its last line
ResumeAnalyzePrices(c) ==
    /\ analysis_pc[c].at = "updating"
    /\ \E all_pools \in LoopSnapshots \cup {liquidity_pools} :
       \E analysis \in {AnalysisOf(all_pools)} :
           /\ liquidity_pools' = all_pools
           /\ price_discrepancies' = analysis.found
           /\ analysis_log' = IF analysis.raised THEN "error" ELSE "completed"
           /\ since_last_analysis' = IF analysis.raised THEN since_last_analysis
                                     ELSE analysis_pc[c].waited
    /\ analysis_pc' = [analysis_pc EXCEPT ![c] = NotCalled]
    /\ collected' = "all"
    /\ UNCHANGED <<loops, opportunities, validated_opportunities, validation_log,
                   returned, assessed, pending_executions, execution_results,
                   execution_tasks, wallet_address, web3_clients, skipped>>

\* analysis_interval seconds pass
PassAnalysisInterval ==
    /\ since_last_analysis' = ElapseAnalysis(since_last_analysis, analysis_interval)
    /\ analysis_pc' =
           [c \in Invocations |->
                IF analysis_pc[c].at = "updating"
                THEN [analysis_pc[c] EXCEPT
                          !.waited = ElapseAnalysis(@, analysis_interval)]
                ELSE analysis_pc[c]]
    /\ \/ since_last_analysis' # since_last_analysis
       \/ analysis_pc' # analysis_pc
    /\ UNCHANGED <<loops, liquidity_pools, price_discrepancies, analysis_log,
                   opportunities, validated_opportunities, validation_log, returned,
                   collected, assessed, pending_executions, execution_results,
                   execution_tasks, wallet_address, web3_clients, skipped>>

\* detection_interval seconds pass
PassDetectionInterval ==
    /\ since_last_detection < detection_interval
    /\ since_last_detection' = Elapse(since_last_detection, detection_interval)
    /\ UNCHANGED <<extras, liquidity_pools, price_discrepancies, analysis_log,
                   opportunities, validated_opportunities, validation_log, returned,
                   collected, assessed, detector_pc, running, service_pc>>

ReentryInit == liquidity_pools = EmptyStore /\ Constructed

ReentryNext ==
    \/ \E c \in Invocations : CallAnalyzePrices(c)
    \/ \E c \in Invocations : ResumeAnalyzePrices(c)
    \/ PassAnalysisInterval
    \/ CallDetectOpportunities
    \/ PassDetectionInterval

ReentrySpec == ReentryInit /\ [][ReentryNext]_vars

\* the invocations of analyze_prices between their gate and their last line
InCycle == {c \in Invocations : analysis_pc[c].at = "updating"}

\* C25: a call of analyze_prices made while an earlier invocation is
\* suspended in its cycle does not start a second cycle, so no two cycles of
\* the analyzer are in progress at once.
C25_ReentrantCallIsNoOp == Cardinality(InCycle) <= 1

-----------------------------------------------------------------------------
(* ExecSpec: the flashloan executor.  execute_profitable_trades runs from  *)
(* its first line to its last without handing control back; each          *)
(* execute_trade task it created runs later, in any order.  Of an          *)
(* execution result the model keeps id, type, status, message, the trade   *)
(* details, flashloan_provider, flashloan_amount, the types of the         *)
(* transactions and the success flag; timestamps, hashes, gas and the      *)
(* random profit are left out.                                             *)

MaxExecutions == 2     \* how many trades are executed in all

MaxBatch == 2          \* longest list get_profitable_simulations returns

\* the id of a simulation, and what str(uuid.uuid4()) gives: an id no
\* simulation and no earlier call has
SimId(k) == <<"sim", k>>

Uuid(k) == <<"uuid", k>>

CrossDexSim ==
    [id |-> SimId(1), type |-> "cross_dex", token0 |-> "WETH", token1 |-> "USDC",
     buy_dex |-> "uniswap", buy_network |-> "1", sell_dex |-> "curve",
     sell_network |-> "2", optimal_trade_size_usd |-> 5000]

TriangularSim ==
    [id |-> SimId(2), type |-> "triangular", token_a |-> "WETH", token_b |-> "USDC",
     token_c |-> "DAI", dex_id |-> "uniswap", network_id |-> "1"]

\* what the simulation service can return: a cross-venue and a triangular
\* simulation, one without an id, another trade under the id of the first,
\* one of an unknown type, one without a key the executor reads
Simulations ==
    {CrossDexSim, TriangularSim,
     Without(CrossDexSim, "id"),
     [TriangularSim EXCEPT !.id = SimId(1)],
     [id |-> SimId(3), type |-> "flash_swap"],
     Without(TriangularSim, "token_c")}

RECURSIVE SimLists(_)
SimLists(k) ==
    IF k = 0 THEN {<<>>}
    ELSE SimLists(k - 1) \cup
         {Append(l, sim) : <<l, sim>> \in
             {ls \in SimLists(k - 1) \X Simulations : Len(ls[1]) = k - 1}}

\* the lists get_profitable_simulations can return
ProfitableSimulations == SimLists(MaxBatch)

\* trade.get(key, default)
TradeGet(trade, key, default) == IF key \in DOMAIN trade THEN trade[key] ELSE default

\* the ids in use
IdsOf(trades) == {trades[i].id : i \in 1..Len(trades)}

\* str(uuid.uuid4())
NewUuid(used) == Uuid(CHOOSE k \in 1..(Cardinality(used) + 1) : Uuid(k) \notin used)

\* a variant without the check
NeverPending(pending, sim) == FALSE

\* any(p["id"] == sim.get("id") for p in self.pending_executions)
AlreadyPending(pending, sim) ==
    \E i \in 1..Len(pending) : "id" \in DOMAIN sim /\ pending[i].id = sim.id

\* the loop of execute_profitable_trades from the k-th simulation on: the
\* pending list, the tasks created, the ids logged as skipped and the uuids
\* given out
RECURSIVE ExecuteEach(_, _, _)
ExecuteEach(sims, k, done) ==
    IF k > Len(sims) THEN done
    ELSE IF AlreadyPending(done.pending, sims[k])
    THEN ExecuteEach(sims, k + 1, [done EXCEPT !.skipped = Append(@, sims[k].id)])
    ELSE LET sim == IF "id" \notin DOMAIN sims[k]
                    THEN Merge(sims[k], [id |-> NewUuid(done.uuids)])
                    ELSE sims[k]
         IN  ExecuteEach(sims, k + 1,
                         [pending |-> Append(done.pending, sim),
                          tasks |-> done.tasks \cup {sim},
                          skipped |-> done.skipped,
                          uuids |-> done.uuids \cup {sim.id}])

\* the uuids given out so far
UuidsInUse ==
    {id \in IdsOf(pending_executions) \cup IdsOf(execution_results) : id[1] = "uuid"}

\* execute_profitable_trades when get_profitable_simulations returns
\* profitable_sims, or fails
ExecuteProfitableTrades(profitable_sims, fails) ==
    /\ Len(execution_results) + Cardinality(execution_tasks) < MaxExecutions
    /\ IF fails
       THEN UNCHANGED <<pending_executions, execution_tasks, skipped>>
       ELSE \E done \in {ExecuteEach(profitable_sims, 1,
                                     [pending |-> pending_executions,
                                      tasks |-> execution_tasks,
                                      skipped |-> <<>>,
                                      uuids |-> UuidsInUse])} :
                /\ Len(execution_results) + Cardinality(done.tasks) <= MaxExecutions
                /\ pending_executions' = done.pending
                /\ execution_tasks' = done.tasks
                /\ skipped' = done.skipped
    /\ UNCHANGED <<loops, liquidity_pools, price_discrepancies, analysis_log,
                   opportunities, validated_opportunities, validation_log, returned,
                   collected, assessed, analysis_pc, since_last_analysis,
                   execution_results, wallet_address, web3_clients>>

\* execution_result as execute_trade builds it
StartedResult(trade_id, trade_type) ==
    [id |-> trade_id, type |-> trade_type, status |-> "pending",
     message |-> "Trade execution started", transaction_hashes |-> <<>>,
     flashloan_provider |-> "", flashloan_amount |-> 0]

Failed(execution_result, message) ==
    [execution_result EXCEPT !.status = "failed", !.message = message]

\* what select_flashloan_provider can do: return a provider, return none,
\* raise
ProviderOutcomes == {[provider |-> "aave"], [provider |-> None], Raised}

CrossDexTradeKeys ==
    {"token0", "token1", "buy_dex", "buy_network", "sell_dex", "sell_network"}

TriangularTradeKeys == {"token_a", "token_b", "token_c", "dex_id", "network_id"}

\* execution_result.update({...}) with the trade details
WithDetails(execution_result, trade, keys) ==
    Merge(execution_result,
          [k \in keys \cup {"trade_size_usd"} |->
               IF k = "trade_size_usd" THEN TradeGet(trade, "optimal_trade_size_usd", 1000)
               ELSE trade[k]])

\* execution_result after the flashloan provider was found and every step
\* simulated
WithSteps(execution_result, provider, steps) ==
    [execution_result EXCEPT !.flashloan_provider = provider,
                             !.flashloan_amount = execution_result.trade_size_usd,
                             !.transaction_hashes = steps]

\* execute_cross_dex_trade: execution_result when it returns, what it
\* appended to execution_results itself, and whether it raised
execute_cross_dex_trade(trade, execution_result, selected) ==
    IF ~(CrossDexTradeKeys \subseteq DOMAIN trade)
    THEN [result |-> execution_result, appended |-> <<>>, raised |-> TRUE]
    ELSE LET detailed == WithDetails(execution_result, trade, CrossDexTradeKeys)
         IN  IF wallet_address = None
             THEN [result |-> Failed(detailed, "Wallet not initialized, execution aborted"),
                   appended |-> <<>>, raised |-> FALSE]
             ELSE IF trade.buy_network \notin web3_clients
                     \/ trade.sell_network \notin web3_clients
             THEN [result |-> Failed(detailed, "Web3 client not available"),
                   appended |-> <<>>, raised |-> FALSE]
             ELSE IF IsRaised(selected)
             THEN [result |-> detailed, appended |-> <<>>, raised |-> TRUE]
             ELSE IF selected.provider = None
             THEN [result |-> Failed(detailed, "No suitable flashloan provider found"),
                   appended |-> <<>>, raised |-> FALSE]
             ELSE [result |->
                       [WithSteps(detailed, selected.provider,
                                  IF trade.buy_network # trade.sell_network
                                  THEN <<"flashloan", "buy", "transfer", "sell", "repay">>
                                  ELSE <<"flashloan", "buy", "sell", "repay">>)
                            EXCEPT !.status = "success",
                                   !.message = "Trade executed successfully (simulated)"],
                   appended |-> <<>>, raised |-> FALSE]

\* execute_triangular_trade, likewise
execute_triangular_trade(trade, execution_result, selected) ==
    IF ~(TriangularTradeKeys \subseteq DOMAIN trade)
    THEN [result |-> execution_result, appended |-> <<>>, raised |-> TRUE]
    ELSE LET detailed == WithDetails(execution_result, trade, TriangularTradeKeys)
         IN  IF wallet_address = None
             THEN [result |-> Failed(detailed, "Wallet not initialized, execution aborted"),
                   appended |-> <<>>, raised |-> FALSE]
             ELSE IF trade.network_id \notin web3_clients
             THEN [result |-> Failed(detailed, "Web3 client not available"),
                   appended |-> <<>>, raised |-> FALSE]
             ELSE IF IsRaised(selected)
             THEN [result |-> detailed, appended |-> <<>>, raised |-> TRUE]
             ELSE IF selected.provider = None
             THEN [result |-> Failed(detailed, "No suitable flashloan provider found"),
                   appended |-> <<>>, raised |-> FALSE]
             ELSE LET simulated ==
                          Merge(WithSteps(detailed, selected.provider,
                                          <<"flashloan", "swap_a_b", "swap_b_c",
                                            "swap_c_a", "repay">>),
                                [success |-> TRUE])
                  \* self.execution_results.append(execution_result)
                  IN  [result |-> simulated, appended |-> <<simulated>>,
                       raised |-> FALSE]

\* the try statement of execute_trade without its finally clause
ExecutionOf(trade, selected) ==
    LET trade_id == TradeGet(trade, "id", "unknown")
        trade_type == TradeGet(trade, "type", "unknown")
        execution_result == StartedResult(trade_id, trade_type)
        outcome ==
            IF trade_type = "cross_dex"
            THEN execute_cross_dex_trade(trade, execution_result, selected)
            ELSE IF trade_type = "triangular"
            THEN execute_triangular_trade(trade, execution_result, selected)
            ELSE [result |-> Failed(execution_result, "Unknown trade type"),
                  appended |-> <<>>, raised |-> FALSE]
    IN  IF outcome.raised
        THEN [outcome EXCEPT !.result = Failed(@, "Execution error")]
        ELSE outcome

\* p for p in self.pending_executions if p["id"] != trade_id
RECURSIVE OthersPending(_, _)
OthersPending(pending, trade_id) ==
    IF pending = <<>> THEN <<>>
    ELSE (IF Head(pending).id # trade_id THEN <<Head(pending)>> ELSE <<>>)
         \o OthersPending(Tail(pending), trade_id)

\* the task execute_trade(trade), select_flashloan_provider doing what
\* selected says if it is called
ExecuteTrade(trade, selected) ==
    /\ trade \in execution_tasks
    /\ \E outcome \in {ExecutionOf(trade, selected)} :
           /\ pending_executions' =
                  OthersPending(pending_executions, TradeGet(trade, "id", "unknown"))
           /\ execution_results' =
                  Append(execution_results \o outcome.appended, outcome.result)
    /\ execution_tasks' = execution_tasks \ {trade}
    /\ UNCHANGED <<loops, liquidity_pools, price_discrepancies, analysis_log,
                   opportunities, validated_opportunities, validation_log, returned,
                   collected, assessed, analysis_pc, since_last_analysis,
                   wallet_address, web3_clients, skipped>>

\* the executor as constructed: without a private key, with one and a
\* client for every network, with one and a client for one network
Executors ==
    {[wallet |-> None, clients |-> {}],
     [wallet |-> None, clients |-> {"1", "2"}],
     [wallet |-> "0xWallet", clients |-> {"1", "2"}],
     [wallet |-> "0xWallet", clients |-> {"1"}]}

ExecInit ==
    /\ liquidity_pools = EmptyStore
    /\ NotStarted
    /\ NothingAnalyzed
    /\ NothingExecuted
    /\ \E executor \in Executors :
           /\ wallet_address = executor.wallet
           /\ web3_clients = executor.clients

ExecNext ==
    \/ \E profitable_sims \in ProfitableSimulations :
           ExecuteProfitableTrades(profitable_sims, FALSE)
    \/ ExecuteProfitableTrades(<<>>, TRUE)
    \/ \E trade \in execution_tasks : \E selected \in ProviderOutcomes :
           ExecuteTrade(trade, selected)

ExecSpec == ExecInit /\ [][ExecNext]_vars

-----------------------------------------------------------------------------

(* RiskSpec: the two risk scores as functions of their arguments.          *)

\* profit percentages: negative, zero, small, large, huge
ProfitPcts == {RInt(-1000), Rat(-1, 20), Zero, Rat(1, 200), Rat(1, 25), One, RInt(1000)}

LiquidityValues == {0, 50000, 300000, 700000, 2000000}

RiskInit == liquidity_pools = EmptyStore /\ Constructed

ScoreCrossDex(profit_pct, buy_liquidity, sell_liquidity, cross_network) ==
    /\ assessed = NoCall
    /\ assessed' = [called |-> TRUE, type |-> "cross_dex", profit_pct |-> profit_pct,
                    liquidity |-> <<buy_liquidity, sell_liquidity>>,
                    cross_network |-> cross_network,
                    risk_score |-> calculate_risk_score(profit_pct, buy_liquidity,
                                                        sell_liquidity, cross_network)]
    /\ UNCHANGED <<loops, extras, liquidity_pools, price_discrepancies, analysis_log, opportunities,
                   validated_opportunities, validation_log, returned, collected>>

ScoreTriangular(profit_pct, liquidity_a_to_b, liquidity_b_to_c, liquidity_c_to_a) ==
    /\ assessed = NoCall
    /\ assessed' = [called |-> TRUE, type |-> "triangular", profit_pct |-> profit_pct,
                    liquidity |-> <<liquidity_a_to_b, liquidity_b_to_c, liquidity_c_to_a>>,
                    cross_network |-> FALSE,
                    risk_score |-> calculate_risk_score_triangular(profit_pct,
                                       liquidity_a_to_b, liquidity_b_to_c, liquidity_c_to_a)]
    /\ UNCHANGED <<loops, extras, liquidity_pools, price_discrepancies, analysis_log, opportunities,
                   validated_opportunities, validation_log, returned, collected>>

RiskNext ==
    \/ \E profit_pct \in ProfitPcts : \E buy, sell \in LiquidityValues :
           \E cross_network \in BOOLEAN :
               ScoreCrossDex(profit_pct, buy, sell, cross_network)
    \/ \E profit_pct \in ProfitPcts : \E ab, bc, ca \in LiquidityValues :
           ScoreTriangular(profit_pct, ab, bc, ca)

RiskSpec == RiskInit /\ [][RiskNext]_vars

-----------------------------------------------------------------------------
(* Properties                                                              *)

\* the stored opportunities of one type
Stored(type) ==
    {price_discrepancies[i] : i \in {k \in 1..Len(price_discrepancies) :
                                         price_discrepancies[k].type = type}}

\* the pool with that id quotes the pair (t0, t1) at that price and fee on the venue
Quotes(venue, pool_id, t0, t1, price, fee) ==
    \E k \in 1..Len(liquidity_pools[venue]) :
        LET pool == liquidity_pools[venue][k]
        IN  /\ pool.id = pool_id
            /\ \/ /\ IsTwoTokenPool(pool)
                  /\ pool.token0 = t0 /\ pool.token1 = t1
                  /\ price = (IF pool.reserve0 > 0
                              THEN Rat(pool.reserve1, pool.reserve0) ELSE Zero)
                  /\ fee = (IF "feeTier" \in DOMAIN pool THEN pool.feeTier ELSE Rat(3, 1000))
               \/ /\ IsMultiTokenPool(pool)
                  /\ \E i, j \in 1..Len(pool.coins) :
                         /\ i < j /\ pool.coins[i] = t0 /\ pool.coins[j] = t1
                         /\ price = (IF pool.balances[i] > 0
                                     THEN Rat(pool.balances[j], pool.balances[i]) ELSE Zero)
                  /\ fee = (IF "fee" \in DOMAIN pool THEN pool.fee ELSE Rat(4, 10000))

\* C1: every cross-venue opportunity the cross-venue scan stores has
\* price_diff_pct = (sell_price - buy_price) / buy_price and net_profit_pct =
\* price_diff_pct - buy_fee - sell_fee - 0.001, where the prices and fees are
\* those of the two pools it names, and its net_profit_pct is at least the
\* minimum profit threshold 0.005: a pair below the threshold stores nothing.
C1_CrossVenueFormula ==
    \A opp \in Stored("cross_dex") :
        /\ Quotes(<<opp.buy_dex, opp.buy_network>>, opp.buy_pool, opp.token0, opp.token1,
                  opp.buy_price, opp.buy_fee)
        /\ Quotes(<<opp.sell_dex, opp.sell_network>>, opp.sell_pool, opp.token0, opp.token1,
                  opp.sell_price, opp.sell_fee)
        /\ opp.buy_price # Zero
        /\ RMul(opp.price_diff_pct, opp.buy_price) = RSub(opp.sell_price, opp.buy_price)
        /\ opp.net_profit_pct =
               RSub(RSub(RSub(opp.price_diff_pct, opp.buy_fee), opp.sell_fee), Rat(1, 1000))
        /\ RGeq(opp.net_profit_pct, Rat(5, 1000))

\* prices 1 and 41/40 (the ratio of 2000 to 2050) are stored with price_diff_pct 0.025
C1_Witness ==
    \E opp \in Stored("cross_dex") :
        /\ opp.buy_pool = "p1" /\ opp.sell_pool = "b2"
        /\ opp.price_diff_pct = Rat(25, 1000)
        /\ opp.net_profit_pct = Rat(205, 10000)

\* the pool with that id trades from one token to the other at that price
LegQuotes(venue, pool_id, from, to, price) ==
    \E k \in 1..Len(liquidity_pools[venue]) :
        LET pool == liquidity_pools[venue][k]
        IN  /\ pool.id = pool_id
            /\ IsTwoTokenPool(pool)
            /\ \/ /\ pool.token0 = from /\ pool.token1 = to
                  /\ price = (IF pool.reserve0 > 0 /\ pool.reserve1 > 0
                              THEN Rat(pool.reserve1, pool.reserve0) ELSE Zero)
               \/ /\ pool.token1 = from /\ pool.token0 = to
                  /\ price = (IF pool.reserve0 > 0 /\ pool.reserve1 > 0
                              THEN Rat(pool.reserve0, pool.reserve1) ELSE Zero)

\* the fee of the venue's pool with that id
LegFee(venue, pool_id) ==
    LET pools == liquidity_pools[venue]
        pool == pools[CHOOSE k \in 1..Len(pools) : pools[k].id = pool_id]
    IN  IF "feeTier" \in DOMAIN pool THEN pool.feeTier ELSE Rat(3, 1000)

\* C2: every triangular opportunity the triangular scan stores has
\* round_trip_rate = price(A->B) * price(B->C) * price(C->A), the prices being
\* those of the three pools it names, and net_profit_pct = round_trip_rate - 1
\* - (the sum of the three pools' fees) - 0.002, and its net_profit_pct is at
\* least the minimum profit threshold; no cycle with a round-trip rate below 1
\* is stored.
C2_TriangularFormula ==
    \A opp \in Stored("triangular") :
        LET venue == <<opp.dex_id, opp.network_id>>
        IN  /\ LegQuotes(venue, opp.pool_a_to_b, opp.token_a, opp.token_b, opp.price_a_to_b)
            /\ LegQuotes(venue, opp.pool_b_to_c, opp.token_b, opp.token_c, opp.price_b_to_c)
            /\ LegQuotes(venue, opp.pool_c_to_a, opp.token_c, opp.token_a, opp.price_c_to_a)
            /\ opp.round_trip_rate =
                   RMul(RMul(opp.price_a_to_b, opp.price_b_to_c), opp.price_c_to_a)
            /\ opp.total_fee = RAdd(RAdd(LegFee(venue, opp.pool_a_to_b),
                                         LegFee(venue, opp.pool_b_to_c)),
                                    LegFee(venue, opp.pool_c_to_a))
            /\ opp.net_profit_pct =
                   RSub(RSub(RSub(opp.round_trip_rate, One), opp.total_fee), Rat(2, 1000))
            /\ RGeq(opp.net_profit_pct, Rat(5, 1000))
            /\ RGeq(opp.round_trip_rate, One)

\* WETH -> USDC -> DAI -> WETH at 1 * 2 * 2 is stored; its reverse, at 1/4, is not
C2_Witness ==
    /\ analysis_log = "completed"
    /\ \E opp \in Stored("triangular") :
           /\ opp.token_a = "WETH" /\ opp.token_b = "USDC" /\ opp.token_c = "DAI"
           /\ opp.round_trip_rate = RInt(4)
           /\ opp.net_profit_pct = Rat(2989, 1000)
    /\ \A opp \in Stored("triangular") : opp.round_trip_rate # Rat(1, 4)

\* how many stored opportunities pass the filter of a call
PassCount(call) ==
    Cardinality({i \in 1..Len(call.stored) :
                    RGeq(call.stored[i].net_profit_pct, call.min_profit)})

FilteredAndOrdered(call) ==
    /\ \A i \in 1..Len(call.value) :
           /\ RGeq(call.value[i].net_profit_pct, call.min_profit)
           /\ \E k \in 1..Len(call.stored) : call.stored[k] = call.value[i]
    /\ \A i, j \in 1..Len(call.value) :
           i < j => RGeq(call.value[i].net_profit_pct, call.value[j].net_profit_pct)

\* C3 as stated: for every stored list, min_profit and limit,
\* get_arbitrage_opportunities returns only opportunities with net_profit_pct
\* >= min_profit, ordered by net_profit_pct descending, and at most limit of them.
C3_AtMostLimit ==
    returned.called =>
        /\ FilteredAndOrdered(returned)
        /\ Len(returned.value) <= returned.limit

\* C3 amended: the result is filtered and ordered for every limit; it has at
\* most limit entries when limit >= 0, and for a negative limit it is the
\* ordered list without its last -limit entries.
C3_AtMostLimitWhenNonNegative ==
    returned.called =>
        /\ FilteredAndOrdered(returned)
        /\ returned.limit >= 0 =>
               /\ Len(returned.value) <= returned.limit
               /\ Len(returned.value) = Min2(returned.limit, PassCount(returned))
        /\ returned.limit < 0 =>
               Len(returned.value) =
                   (IF PassCount(returned) + returned.limit > 0
                    THEN PassCount(returned) + returned.limit ELSE 0)

\* a call that filters some entries out and truncates the rest to limit = 2
C3_Witness ==
    /\ returned.called
    /\ returned.limit = 2
    /\ Len(returned.value) = 2
    /\ PassCount(returned) > 2
    /\ Len(returned.stored) > PassCount(returned)

\* C4 as stated: get_arbitrage_opportunities applied to its own result with
\* the same min_profit and limit returns that result unchanged, for every
\* stored list, min_profit and limit.
C4_Idempotent ==
    returned.called =>
        get_arbitrage_opportunities(returned.value, returned.min_profit, returned.limit)
            = returned.value

\* C4 amended: the same, for every limit >= 0.
C4_IdempotentWhenNonNegative ==
    (returned.called /\ returned.limit >= 0) =>
        get_arbitrage_opportunities(returned.value, returned.min_profit, returned.limit)
            = returned.value

\* a result of two different opportunities with equal net_profit_pct, cut out
\* of a longer list
C4_Witness ==
    /\ returned.called
    /\ returned.limit = 2
    /\ Len(returned.value) = 2
    /\ Len(returned.stored) > 2
    /\ returned.value[1] # returned.value[2]
    /\ returned.value[1].net_profit_pct = returned.value[2].net_profit_pct

\* C5: every opportunity the validator accepts, cross-venue or triangular,
\* has optimal_trade_size_usd <= max_trade_size_usd.
C5_OptimalWithinMax ==
    /\ \A i \in 1..Len(validation_log) :
           validation_log[i].is_valid =>
               RLeq(validation_log[i].details.optimal_trade_size_usd,
                    validation_log[i].details.max_trade_size_usd)
    /\ \A i \in 1..Len(validated_opportunities) :
           RLeq(validated_opportunities[i].optimal_trade_size_usd,
                validated_opportunities[i].max_trade_size_usd)

\* an accepted cross-venue opportunity below its maximum next to an accepted
\* triangular one held at its maximum
C5_Witness ==
    /\ \E i \in 1..Len(validation_log) :
           /\ validation_log[i].is_valid
           /\ validation_log[i].opportunity.type = "cross_dex"
           /\ RLess(validation_log[i].details.optimal_trade_size_usd,
                    validation_log[i].details.max_trade_size_usd)
    /\ \E i \in 1..Len(validated_opportunities) :
           /\ validated_opportunities[i].type = "triangular"
           /\ validated_opportunities[i].optimal_trade_size_usd = RInt(9000)
           /\ validated_opportunities[i].max_trade_size_usd = RInt(9000)

C7_LookupFailureRejects ==
    \A i \in 1..Len(validation_log) :
        (\E k \in 1..Len(validation_log[i].known) : ~validation_log[i].known[k]) =>
            /\ ~validation_log[i].is_valid
            /\ validation_log[i].details.validation_message =
                   "Could not retrieve pool details"
            /\ validation_log[i].details.optimal_trade_size_usd = Zero
            /\ validation_log[i].details.risk_score = Zero

Competing(prices) == SelectSeq(prices, LAMBDA obs : obs.price # Zero)

\* C9: a price-0 observation is not competitive: no stored cross-venue
\* opportunity buys or sells at price 0, the scan runs to its end, and every
\* pair whose other observations pass the threshold is stored as if the
\* price-0 observation were not there.
C9_ZeroPriceNotCompetitive ==
    analysis_log # "none" =>
        /\ analysis_log = "completed"
        /\ \A opp \in Stored("cross_dex") :
               opp.sell_price # Zero /\ opp.buy_price # Zero
        /\ LET pair_prices == ExtractAll(<<>>, liquidity_pools, 1)
           IN  \A k \in 1..Len(pair_prices) :
                   LET live == Competing(pair_prices[k].prices)
                   IN  (/\ Len(live) >= 2
                        /\ CrossEmits(CrossOpportunity(pair_prices[k].key,
                               LowestPrice(live), HighestPrice(live)))) =>
                           CrossOpportunity(pair_prices[k].key, LowestPrice(live),
                                            HighestPrice(live)) \in Stored("cross_dex")

Tokens == {"WETH", "USDC", "DAI"}

\* some two-token pool of the list trades x against y
Joined(pools, x, y) ==
    \E k \in 1..Len(pools) :
        /\ IsTwoTokenPool(pools[k])
        /\ {pools[k].token0, pools[k].token1} = {x, y}

\* three different tokens, each two of them joined by a pool
HasThreeCycle(pools) ==
    \E a, b, c \in Tokens :
        /\ a # b /\ b # c /\ c # a
        /\ Joined(pools, a, b) /\ Joined(pools, b, c) /\ Joined(pools, c, a)

\* C10: a venue whose token graph has no 3-cycle has no triangular
\* opportunity stored by the triangular scan.
C10_NoCycleNoTriangular ==
    \A opp \in Stored("triangular") :
        HasThreeCycle(liquidity_pools[<<opp.dex_id, opp.network_id>>])

\* C13: readers never see the list of a cycle that did not complete: when
\* the only analysis so far ended in its except clause, a call of
\* get_arbitrage_opportunities returns nothing of it.
C13_NoPartialList ==
    (returned.called /\ analysis_log = "error") => returned.value = <<>>

\* C17: every opportunity validated as valid, cross-venue or triangular, has
\* expected_profit_usd = optimal_trade_size_usd * net_profit_pct, with
\* net_profit_pct the opportunity's net profit after fees and estimated gas.
C17_ExpectedProfit ==
    \A i \in 1..Len(validation_log) :
        validation_log[i].is_valid =>
            validation_log[i].details.expected_profit_usd =
                RMul(validation_log[i].details.optimal_trade_size_usd,
                     validation_log[i].opportunity.net_profit_pct)

\* the stored cross-venue opportunities of a pair key, by their position
EmittedFor(key) ==
    {i \in 1..Len(price_discrepancies) :
        /\ price_discrepancies[i].type = "cross_dex"
        /\ price_discrepancies[i].token_pair = key}

\* the observation is the one the opportunity names on that side
IsBuySide(opp, obs) ==
    /\ opp.buy_dex = obs.dex_id /\ opp.buy_network = obs.network_id
    /\ opp.buy_pool = obs.pool_id /\ opp.buy_price = obs.price

IsSellSide(opp, obs) ==
    /\ opp.sell_dex = obs.dex_id /\ opp.sell_network = obs.network_id
    /\ opp.sell_pool = obs.pool_id /\ opp.sell_price = obs.price

\* C18: for each pair, a stored cross-venue opportunity buys at the first
\* observation of the minimum price and sells at the first observation of the
\* maximum price, so buy_price <= sell_price; a pair with fewer than 2
\* observations stores nothing and no pair stores more than one opportunity.
C18_MinBuysMaxSells ==
    LET pair_prices == ExtractAll(<<>>, liquidity_pools, 1)
    IN  \A k \in 1..Len(pair_prices) :
            LET prices == pair_prices[k].prices
                emitted == EmittedFor(pair_prices[k].key)
            IN  /\ Cardinality(emitted) <= 1
                /\ Len(prices) < 2 => emitted = {}
                /\ \A i \in emitted :
                       LET opp == price_discrepancies[i]
                       IN  /\ RLeq(opp.buy_price, opp.sell_price)
                           /\ \E b \in 1..Len(prices) :
                                  /\ IsBuySide(opp, prices[b])
                                  /\ \A j \in 1..Len(prices) :
                                         RLeq(prices[b].price, prices[j].price)
                                  /\ \A j \in 1..(b - 1) :
                                         RLess(prices[b].price, prices[j].price)
                           /\ \E t \in 1..Len(prices) :
                                  /\ IsSellSide(opp, prices[t])
                                  /\ \A j \in 1..Len(prices) :
                                         RLeq(prices[j].price, prices[t].price)
                                  /\ \A j \in 1..(t - 1) :
                                         RLess(prices[j].price, prices[t].price)

\* DAI_WETH quoted 2 by p3, 4 by p4 and 2 again by c2: the first 2 buys
C18_Witness ==
    /\ analysis_log = "completed"
    /\ \E k \in 1..Len(liquidity_pools[CurvePolygon]) :
           liquidity_pools[CurvePolygon][k].id = "c2"
    /\ \E opp \in Stored("cross_dex") :
           /\ opp.token_pair = <<"DAI", "WETH">>
           /\ opp.buy_pool = "p3" /\ opp.buy_price = RInt(2)
           /\ opp.sell_pool = "p4" /\ opp.sell_price = RInt(4)

\* the two-token pools of the store, with their venue
TwoTokenPools ==
    {vp \in UNION {{<<v, liquidity_pools[v][k]>> : k \in 1..Len(liquidity_pools[v])} :
                      v \in Venues} : IsTwoTokenPool(vp[2])}

\* some pair key holds the observations of both pools
GroupedTogether(x, y) ==
    LET pair_prices == ExtractAll(<<>>, liquidity_pools, 1)
    IN  \E k \in 1..Len(pair_prices) :
            /\ \E i \in 1..Len(pair_prices[k].prices) :
                   pair_prices[k].prices[i].pool_id = x.id
            /\ \E i \in 1..Len(pair_prices[k].prices) :
                   pair_prices[k].prices[i].pool_id = y.id

\* C19: in a scan, two two-token pools that hold the same two tokens are
\* grouped under one pair key, whichever of the two each lists as token0.
C19_PairKeyUnordered ==
    analysis_log # "none" =>
        \A x, y \in TwoTokenPools :
            {x[2].token0, x[2].token1} = {y[2].token0, y[2].token1} =>
                GroupedTogether(x[2], y[2])

\* the three rotations of a cycle
Rotations(a, b, c) == {<<a, b, c>>, <<b, c, a>>, <<c, a, b>>}

\* the stored triangular opportunities of a venue over a rotation of the
\* cycle, by their position
EmittedForCycle(dex_id, network_id, a, b, c) ==
    {i \in 1..Len(price_discrepancies) :
        LET opp == price_discrepancies[i]
        IN  /\ opp.type = "triangular"
            /\ opp.dex_id = dex_id /\ opp.network_id = network_id
            /\ <<opp.token_a, opp.token_b, opp.token_c>> \in Rotations(a, b, c)}

WellFormed(pool) ==
    IF "coins" \in DOMAIN pool \/ "balances" \in DOMAIN pool
    THEN /\ {"id", "coins", "balances"} \subseteq DOMAIN pool
         /\ Len(pool.balances) >= Len(pool.coins)
    ELSE {"id", "token0", "token1", "reserve0", "reserve1"} \subseteq DOMAIN pool

\* the store without its malformed records
WellFormedPools == [v \in Venues |-> SelectSeq(liquidity_pools[v], WellFormed)]

\* C14: a malformed record is skipped on its own: the analysis of a store
\* completes, and stores every opportunity that the analysis of the store's
\* well-formed records alone stores.
C14_MalformedSkipped ==
    LET expected == AnalysisOf(WellFormedPools)
    IN  (analysis_log # "none" /\ ~expected.raised) =>
            /\ analysis_log = "completed"
            /\ \A i \in 1..Len(expected.found) :
                   \E k \in 1..Len(price_discrepancies) :
                       price_discrepancies[k] = expected.found[i]

\* C11: validate_opportunity never raises and every opportunity of a cycle
\* is validated once: the pass returns one outcome per opportunity, in
\* order, each either valid or rejected; a rejected one has is_valid false
\* and a validation_message that is not empty; the valid ones, and only
\* they, are in validated_opportunities.
C11_NeverRaises ==
    /\ Len(validation_log) = Len(opportunities)
    /\ \A i \in 1..Len(validation_log) :
           LET entry == validation_log[i]
           IN  /\ entry.opportunity = opportunities[i]
               /\ ~entry.raised
               /\ entry.is_valid \in BOOLEAN
               /\ entry.details.is_valid = entry.is_valid
               /\ ~entry.is_valid => entry.details.validation_message # ""
    /\ Len(validated_opportunities) =
           Cardinality({i \in 1..Len(validation_log) : validation_log[i].is_valid})

\* one pass rejects a dict without type and an opportunity whose
\* net_profit_pct is not a number, each with a validation error, and accepts
\* a sound opportunity
C11_Witness ==
    /\ Len(validation_log) = 3
    /\ "type" \notin DOMAIN validation_log[1].opportunity
    /\ validation_log[2].opportunity = [SoundCrossDex EXCEPT !.net_profit_pct = NotANumber]
    /\ validation_log[3].opportunity = SoundCrossDex
    /\ \A i \in 1..2 :
           /\ ~validation_log[i].is_valid
           /\ validation_log[i].details.validation_message = "Validation error"
    /\ validation_log[3].is_valid
    /\ Len(validated_opportunities) = 1

\* C12: a call of detect_opportunities runs a detection cycle, with the
\* opportunities of the market data service at the minimum profit threshold
\* and their validation, if and only if at least detection_interval seconds
\* have passed since last_detection; a call inside the window changes neither
\* opportunities nor validated_opportunities nor last_detection, and nothing
\* but a call with the window passed ever changes them.
C12_GateDecides ==
    [][/\ (CallDetectOpportunities \/ LoopDetect(FALSE)) =>
              IF since_last_detection >= detection_interval
              THEN /\ opportunities' =
                          get_arbitrage_opportunities(price_discrepancies, Rat(5, 1000), 10)
                   /\ Len(validation_log') = Len(opportunities')
                   /\ since_last_detection' = 0
              ELSE UNCHANGED <<opportunities, validated_opportunities, validation_log,
                               since_last_detection>>
       /\ (\/ opportunities' # opportunities
           \/ validated_opportunities' # validated_opportunities
           \/ since_last_detection' < since_last_detection) =>
              /\ since_last_detection >= detection_interval
              /\ since_last_detection' = 0
      ]_vars

\* start_detection is asleep after a call that returned 5 seconds into the
\* window a cycle with opportunities had opened: that call did nothing
C12_Witness ==
    /\ detector_pc = "sleep"
    /\ since_last_detection = 5
    /\ opportunities # <<>>
    /\ Len(validated_opportunities) > 0

\* C15: an exception of a detection cycle never ends start_detection: the
\* loop goes to its 5 second backoff and from there to the next call of
\* detect_opportunities, which it makes.
C15_LoopSurvives ==
    /\ [](detector_pc # "crashed")
    /\ (detector_pc = "backoff") ~> (detector_pc = "detect")
    /\ (detector_pc = "detect") ~> (detector_pc \in {"sleep", "backoff"})

\* start_detection is about to call again, 5 seconds after a cycle: it
\* comes from the backoff of a call that raised
C15_Witness ==
    /\ detector_pc = "detect"
    /\ since_last_detection = 5

\* C16: start returns only with running false; once stop has been called on
\* the running service, start begins no further update and returns, whether
\* the calls of the loop return or raise; until then the loop comes back to
\* update_market_data.
C16_StopEndsStart ==
    /\ [](service_pc = "returned" => ~running)
    /\ [][~running /\ service_pc # "update" => service_pc' # "update"]_vars
    /\ (~running /\ service_pc \in {"test", "update", "analyze", "sleep", "backoff"})
           ~> (service_pc = "returned" /\ ~running)
    /\ (running /\ service_pc \in {"test", "analyze", "sleep", "backoff"})
           ~> (service_pc = "update" \/ ~running)

\* start has returned after an update and an analysis that completed
C16_Witness ==
    /\ service_pc = "returned"
    /\ ~running
    /\ collected = "all"
    /\ analysis_log = "completed"
    /\ price_discrepancies # <<>>

\* the entries of xs whose net_profit_pct is profit, in the order of xs
WithProfit(xs, profit) == SelectSeq(xs, LAMBDA x : x.net_profit_pct = profit)

IsPrefix(xs, ys) == Len(xs) <= Len(ys) /\ SubSeq(ys, 1, Len(xs)) = xs

\* C21: the ranker is stable and has no side effect: the returned entries of
\* one net_profit_pct are the first of the stored entries of that
\* net_profit_pct, in the order of the stored list; the value is the one the
\* stored list and the arguments determine; the call leaves the stored list
\* as it was.
C21_StableAndPure ==
    /\ [](returned.called =>
             /\ \A i \in 1..Len(returned.value) :
                    IsPrefix(WithProfit(returned.value, returned.value[i].net_profit_pct),
                             WithProfit(returned.stored, returned.value[i].net_profit_pct))
             /\ returned.value = get_arbitrage_opportunities(returned.stored,
                                     returned.min_profit, returned.limit))
    /\ [][returned'.called /\ returned' # returned =>
              /\ price_discrepancies' = price_discrepancies
              /\ returned'.stored = price_discrepancies]_vars

\* a call returned two different opportunities of the same net_profit_pct
C21_Witness ==
    /\ returned.called
    /\ \E i, j \in 1..Len(returned.value) :
           /\ i < j
           /\ returned.value[i].net_profit_pct = returned.value[j].net_profit_pct
           /\ returned.value[i] # returned.value[j]

\* the smallest liquidity of the legs of an entry of validation_log
SmallestLeg(entry) ==
    IF Len(entry.liquidity) = 2 THEN Min2(entry.liquidity[1], entry.liquidity[2])
    ELSE Min3(entry.liquidity[1], entry.liquidity[2], entry.liquidity[3])

\* min(base_size * profit_multiplier, max_trade_size_usd) as the design states
\* it: fractions of the smallest leg, the multiplier from net_profit_pct
StatedOptimalSize(entry, base_fraction, k, cap_fraction) ==
    RMin(RMul(RMul(RInt(SmallestLeg(entry)), base_fraction),
              RAdd(One, RMul(entry.opportunity.net_profit_pct, RInt(k)))),
         RMul(RInt(SmallestLeg(entry)), cap_fraction))

\* C22: every opportunity validated as valid has max_trade_size_usd = 5% (3%
\* for a triangular one) of its smallest leg's liquidity and
\* optimal_trade_size_usd = min(base_size * profit_multiplier,
\* max_trade_size_usd), with base_size 0.5% (0.3%) of the smallest leg and
\* profit_multiplier = 1 + net_profit_pct * 10 (* 8), net_profit_pct being the
\* opportunity's.
C22_OptimalTradeSize ==
    \A i \in 1..Len(validation_log) :
        LET entry == validation_log[i]
        IN  entry.is_valid =>
                IF entry.opportunity.type = "cross_dex"
                THEN /\ entry.details.max_trade_size_usd =
                            RMul(RInt(SmallestLeg(entry)), Rat(5, 100))
                     /\ entry.details.optimal_trade_size_usd =
                            StatedOptimalSize(entry, Rat(5, 1000), 10, Rat(5, 100))
                ELSE /\ entry.details.max_trade_size_usd =
                            RMul(RInt(SmallestLeg(entry)), Rat(3, 100))
                     /\ entry.details.optimal_trade_size_usd =
                            StatedOptimalSize(entry, Rat(3, 1000), 8, Rat(3, 100))

\* the liquidity penalty as the design states it, for both opportunity types
StatedLiquidityPenalty(min_liquidity) ==
    IF min_liquidity < 100000 THEN 20
    ELSE IF min_liquidity < 500000 THEN 10
    ELSE IF min_liquidity < 1000000 THEN 5 ELSE 0

\* the smallest of the liquidities a risk score was computed from
SmallestAssessed ==
    IF Len(assessed.liquidity) = 2
    THEN Min2(assessed.liquidity[1], assessed.liquidity[2])
    ELSE Min3(assessed.liquidity[1], assessed.liquidity[2], assessed.liquidity[3])

\* C23: the risk score is the clamp to [0, 100] of base + profit_pct * scale
\* + liquidity penalty + network penalty: base 50 and scale 1000 for a
\* cross-venue opportunity, 40 and 1200 for a triangular one; the penalty on
\* the smallest leg is 20 below $100k, 10 below $500k, 5 below $1M, else 0,
\* for both types; 15 more only for a cross-venue opportunity across networks.
C23_RiskScoreFormula ==
    assessed.called =>
        LET base == IF assessed.type = "cross_dex" THEN 50 ELSE 40
            scale == IF assessed.type = "cross_dex" THEN 1000 ELSE 1200
            network == IF assessed.type = "cross_dex" /\ assessed.cross_network
                       THEN 15 ELSE 0
            raw == RAdd(RAdd(RInt(base), RMul(assessed.profit_pct, RInt(scale))),
                        RInt(StatedLiquidityPenalty(SmallestAssessed) + network))
        IN  assessed.risk_score = RMax(Zero, RMin(RInt(100), raw))

NoRepeats(xs) == \A i, j \in 1..Len(xs) : i # j => xs[i] # xs[j]

\* x is y with the fields the validation added
Extends(x, y) == DOMAIN y \subseteq DOMAIN x /\ \A k \in DOMAIN y : x[k] = y[k]

\* the prices a pool quotes between two of its tokens
PricesOf(pool) ==
    IF IsTwoTokenPool(pool)
    THEN (IF pool.reserve0 > 0 THEN {Rat(pool.reserve1, pool.reserve0)} ELSE {})
             \cup (IF pool.reserve1 > 0 THEN {Rat(pool.reserve0, pool.reserve1)} ELSE {})
    ELSE {Rat(pool.balances[j], pool.balances[i]) :
              <<i, j>> \in {ij \in (1..Len(pool.coins)) \X (1..Len(pool.coins)) :
                               ij[1] < ij[2] /\ pool.balances[ij[1]] > 0}}

\* the venue's list in pools has a pool of that id that quotes that price
QuotedIn(pools, venue, pool_id, price) ==
    \E k \in 1..Len(pools[venue]) :
        pools[venue][k].id = pool_id /\ price \in PricesOf(pools[venue][k])

\* every leg of the opportunity is a pool of the store pools, at its price
MadeFrom(pools, opp) ==
    IF opp.type = "cross_dex"
    THEN /\ QuotedIn(pools, <<opp.buy_dex, opp.buy_network>>, opp.buy_pool, opp.buy_price)
         /\ QuotedIn(pools, <<opp.sell_dex, opp.sell_network>>, opp.sell_pool,
                     opp.sell_price)
    ELSE /\ QuotedIn(pools, <<opp.dex_id, opp.network_id>>, opp.pool_a_to_b,
                     opp.price_a_to_b)
         /\ QuotedIn(pools, <<opp.dex_id, opp.network_id>>, opp.pool_b_to_c,
                     opp.price_b_to_c)
         /\ QuotedIn(pools, <<opp.dex_id, opp.network_id>>, opp.pool_c_to_a,
                     opp.price_c_to_a)

\* C24: each cycle recomputes from scratch.  A cycle of the analyzer leaves
\* in price_discrepancies only opportunities of the pool store as it is now,
\* each once; a cycle of the detector leaves in opportunities only entries of
\* the analyzer's list as it is now, each once, and in
\* validated_opportunities only entries made from those: nothing is kept from
\* the lists of the cycle before.
C24_RecomputedFromScratch ==
    [][/\ (price_discrepancies' # price_discrepancies \/ analysis_log' # analysis_log) =>
              /\ \A i \in 1..Len(price_discrepancies') :
                     MadeFrom(liquidity_pools', price_discrepancies'[i])
              /\ NoRepeats(price_discrepancies')
       /\ (\/ opportunities' # opportunities
           \/ validated_opportunities' # validated_opportunities) =>
              /\ \A i \in 1..Len(opportunities') :
                     \E k \in 1..Len(price_discrepancies) :
                         opportunities'[i] = price_discrepancies[k]
              /\ NoRepeats(opportunities')
              /\ Len(validated_opportunities') <= Len(opportunities')
              /\ \A i \in 1..Len(validated_opportunities') :
                     \E k \in 1..Len(opportunities') :
                         Extends(validated_opportunities'[i], opportunities'[k])
      ]_vars

\* after one venue was fetched again the analyzer's list holds the
\* opportunities of the new store only: an opportunity the detector took
\* from the cycle before is no longer in it
C24_Witness ==
    /\ collected = "again"
    /\ analysis_log = "completed"
    /\ price_discrepancies # <<>>
    /\ \A i \in 1..Len(price_discrepancies) :
           MadeFrom(liquidity_pools, price_discrepancies[i])
    /\ \E i \in 1..Len(opportunities) :
           \A k \in 1..Len(price_discrepancies) : opportunities[i] # price_discrepancies[k]


\* the three legs of a stored triangular opportunity are quoted by the pools
\* it names, on its venue
LegsOfOnePool(opp) ==
    LET venue == <<opp.dex_id, opp.network_id>>
    IN  /\ LegQuotes(venue, opp.pool_a_to_b, opp.token_a, opp.token_b, opp.price_a_to_b)
        /\ LegQuotes(venue, opp.pool_b_to_c, opp.token_b, opp.token_c, opp.price_b_to_c)
        /\ LegQuotes(venue, opp.pool_c_to_a, opp.token_c, opp.token_a, opp.price_c_to_a)
        /\ opp.total_fee = RAdd(RAdd(LegFee(venue, opp.pool_a_to_b),
                                     LegFee(venue, opp.pool_b_to_c)),
                                LegFee(venue, opp.pool_c_to_a))

PairwiseDistinct(opp) ==
    /\ opp.token_a # opp.token_b
    /\ opp.token_b # opp.token_c
    /\ opp.token_c # opp.token_a

\* the leg half of C26 alone
C26_LegsOnly == \A opp \in Stored("triangular") : LegsOfOnePool(opp)

\* C26: every triangular opportunity stored has token_a, token_b and token_c
\* pairwise distinct, and each of its three legs is an edge of the token
\* graph of its venue, with the price, fee and pool id of one pool.
C26_DistinctTokensOwnLegs ==
    \A opp \in Stored("triangular") : PairwiseDistinct(opp) /\ LegsOfOnePool(opp)


\* the positions of the cycle's opportunities that validation returned valid for
ValidOnes == {i \in 1..Len(validation_log) : validation_log[i].is_valid}

\* {**opp, **validation_details} of the opportunity at that position
MergedAt(i) == Merge(validation_log[i].opportunity, validation_log[i].details)

\* C27: after validate_opportunities, validated_opportunities holds exactly
\* the opportunities of the cycle that validation returned valid for, each as
\* often as it was returned valid, each with is_valid true, in descending
\* order of expected_profit_usd; a rejected opportunity and one whose
\* validation raised are absent, the list is no longer than opportunities,
\* and it is empty when opportunities is.
C27_ExactlyTheValidOnes ==
    /\ Len(validation_log) = Len(opportunities)
    /\ \A i \in 1..Len(validation_log) : validation_log[i].opportunity = opportunities[i]
    /\ Len(validated_opportunities) = Cardinality(ValidOnes)
    /\ \A i \in ValidOnes :
           Cardinality({j \in 1..Len(validated_opportunities) :
                           validated_opportunities[j] = MergedAt(i)})
               = Cardinality({k \in ValidOnes : MergedAt(k) = MergedAt(i)})
    /\ \A j \in 1..Len(validated_opportunities) :
           /\ validated_opportunities[j].is_valid = TRUE
           /\ \E i \in ValidOnes : validated_opportunities[j] = MergedAt(i)
    /\ \A i \in 1..Len(validation_log) :
           (~validation_log[i].is_valid \/ validation_log[i].raised) =>
               \A j \in 1..Len(validated_opportunities) :
                   validated_opportunities[j] # MergedAt(i)
    /\ \A i, j \in 1..Len(validated_opportunities) :
           i < j => RGeq(validated_opportunities[i].expected_profit_usd,
                         validated_opportunities[j].expected_profit_usd)
    /\ Len(validated_opportunities) <= Len(opportunities)
    /\ opportunities = <<>> => validated_opportunities = <<>>

\* of three opportunities the second is rejected, and the third, with the
\* larger expected profit, comes before the first in validated_opportunities
C27_Witness ==
    /\ Len(opportunities) = 3
    /\ ValidOnes = {1, 3}
    /\ Len(validated_opportunities) = 2
    /\ validated_opportunities[1] = MergedAt(3)
    /\ validated_opportunities[2] = MergedAt(1)
    /\ ~RGeq(validated_opportunities[2].expected_profit_usd,
             validated_opportunities[1].expected_profit_usd)


\* the tasks that ran in the step: execute_trade returned for them
Executed(before, after) == before \ after

\* the step is a call of execute_trade that went through a successful
\* triangular execution
TriangularSuccess(results) ==
    /\ results # <<>>
    /\ "success" \in DOMAIN results[Len(results)]

\* execute_trade took the trade off the pending list and left one entry more,
\* the trade's, in the results
OneResultFor(trade, pending, results_before, results_after) ==
    /\ trade.id \notin IdsOf(pending)
    /\ Len(results_after) = Len(results_before) + 1
    /\ SubSeq(results_after, 1, Len(results_before)) = results_before
    /\ results_after[Len(results_after)].id = trade.id

\* C28 for every call but those that end a triangular trade with success
C28_OtherOutcomes ==
    [][\A trade \in Executed(execution_tasks, execution_tasks') :
           ~TriangularSuccess(execution_results') =>
               OneResultFor(trade, pending_executions', execution_results,
                            execution_results')]_vars

\* C28: every call of execute_trade, whatever its outcome and the type of
\* the trade, removes the trade from pending_executions and adds exactly one
\* entry for that trade to execution_results.
C28_ExactlyOneResult ==
    [][\A trade \in Executed(execution_tasks, execution_tasks') :
           OneResultFor(trade, pending_executions', execution_results,
                        execution_results')]_vars

\* the trade passed the checks of wallet, web3 client and flashloan provider
PassedAllChecks(result) == result.flashloan_provider # ""

\* C29 for the trades that are not triangular
C29_OtherTypes ==
    \A i \in 1..Len(execution_results) :
        execution_results[i].type # "triangular" =>
            /\ execution_results[i].status \in {"success", "failed"}
            /\ PassedAllChecks(execution_results[i]) =>
                   execution_results[i].status = "success"

\* C29: a recorded execution result has status 'success' or 'failed', never
\* 'pending', and a cross-dex or triangular trade that passed the checks of
\* wallet, web3 client and flashloan provider is recorded with 'success'.
C29_TerminalStatus ==
    \A i \in 1..Len(execution_results) :
        /\ execution_results[i].status \in {"success", "failed"}
        /\ PassedAllChecks(execution_results[i]) =>
               execution_results[i].status = "success"

\* the entries a step appended to a list
Added(before, after) ==
    IF Len(after) > Len(before) /\ SubSeq(after, 1, Len(before)) = before
    THEN {after[i] : i \in (Len(before) + 1)..Len(after)}
    ELSE {}

\* every entry has an id and no two entries have the same
DistinctIds(trades) ==
    /\ \A i \in 1..Len(trades) : "id" \in DOMAIN trades[i]
    /\ \A i, j \in 1..Len(trades) : i # j => trades[i].id # trades[j].id

\* C30: execute_profitable_trades never adds to pending_executions, nor
\* starts executing, a trade whose id is the id of an entry already pending:
\* in every state the entries of pending_executions have ids, pairwise
\* distinct, and the tasks not yet run are the pending trades.
C30_PendingIdsDistinct ==
    /\ [](/\ DistinctIds(pending_executions)
          /\ execution_tasks = {pending_executions[i] :
                                    i \in 1..Len(pending_executions)})
    /\ [][/\ \A trade \in Added(pending_executions, pending_executions') :
                 trade.id \notin IdsOf(pending_executions)
          /\ \A trade \in execution_tasks' \ execution_tasks :
                 trade.id \notin IdsOf(pending_executions)]_vars

\* the triangular trade under the id of the pending cross-venue trade was
\* skipped, the one without an id went in under a uuid
C30_Witness ==
    /\ skipped = <<SimId(1)>>
    /\ Len(pending_executions) = 2
    /\ pending_executions[1] = CrossDexSim
    /\ pending_executions[2] = Merge(Without(CrossDexSim, "id"), [id |-> Uuid(1)])
    /\ execution_tasks = {pending_executions[1], pending_executions[2]}

====
